---- MODULE Spec2Model ----
(***************************************************************************)
(* The scheduler core of the dscale simulator: the virtual clock, the      *)
(* unique-id source, the latency queue, the bandwidth queue, the network   *)
(* actor, the timer manager, the execution context (SimulationAccess) and  *)
(* the scheduler loop of Simulation::run.                                  *)
(*                                                                         *)
(* One action is one iteration of the scheduler loop (or the start phase): *)
(* clock fast-forward, the chosen actor's step with the handler callback   *)
(* it invokes, and the drain of the execution context.  What a handler     *)
(* callback emits and what the random source samples are inputs, drawn     *)
(* from small sets.                                                        *)
(***************************************************************************)
EXTENDS Integers, Sequences, FiniteSets

(***************************************************************************)
(* Bounds of the model.                                                    *)
(***************************************************************************)
NumProcs == 2        \* participants, ids 1..NumProcs
TimeBudget == 20     \* the larger time budget T of the two the model runs with
SmallBudget == 2     \* the smaller one
MaxSends == 2        \* send/broadcast calls over one run
MaxTimers == 2       \* schedule_timer_after calls over one run
MaxCalls == 3        \* API calls over one run
MaxEffects == 1      \* API calls one callback makes
MaxSize == 3         \* largest virtual size of a message
MaxBandwidth == 2    \* largest Bounded(B)
MaxLatency == 1      \* Uniform(0, MaxLatency) on every link
MaxDelay == 10       \* largest timer delay
BurstLen == 3        \* most messages the burst sender emits in its start
MaxParticipants == 5 \* most participants the builder runs create
MaxPoolSize == 2     \* largest size of one add_pool call
ThrottleLatency == 2 \* the fixed latency of the bandwidth example, scaled down from 10
ThrottleSpread == 5  \* the bandwidth example runs with budgets TimeBudget..TimeBudget+ThrottleSpread
PingPongSpread == 5  \* the ping-pong scenario runs with budgets TimeBudget..TimeBudget+PingPongSpread

\* Stands for usize::MAX, the value BandwidthQueue::new stores for Unbounded
\* and the start value of Simulation::peek_closest: larger than every time and
\* byte count the bounded model reaches.
USIZE_MAX == 1000000

GLOBAL_POOL == "global_pool"

ProcessIds == 1..NumProcs

\* PoolListing: every participant is in GLOBAL_POOL in the order added
\* (SimulationBuilder::add_pool), which is the order of the ids.
pool_listing == [name \in {GLOBAL_POOL} |-> [i \in 1..NumProcs |-> i]]

list_pool(name) == pool_listing[name]

SeqToSet(s) == {s[i] : i \in 1..Len(s)}

Min(a, b) == IF a <= b THEN a ELSE b

(***************************************************************************)
(* std::collections::BinaryHeap<Reverse<RoutedMessage>>, as a sequence in  *)
(* the heap's array layout (position p of the array is index p + 1).       *)
(* RoutedMessage is ordered by arrival_time alone.                         *)
(***************************************************************************)
\* Reverse(a) <= Reverse(b) for routed messages a, b.
ReverseLe(a, b) == b.arrival_time <= a.arrival_time

Swap(data, i, j) == [data EXCEPT ![i + 1] = data[j + 1], ![j + 1] = data[i + 1]]

RECURSIVE sift_up(_, _, _)
sift_up(data, start, pos) ==
    IF pos > start
    THEN LET parent == (pos - 1) \div 2
         IN IF ReverseLe(data[pos + 1], data[parent + 1])
            THEN data
            ELSE sift_up(Swap(data, pos, parent), start, parent)
    ELSE data

RECURSIVE sift_down_to_bottom(_, _, _)
sift_down_to_bottom(data, start, pos) ==
    LET end == Len(data)
        child == 2 * pos + 1
    IN IF end >= 2 /\ child <= end - 2
       THEN LET c == IF ReverseLe(data[child + 1], data[child + 2])
                     THEN child + 1 ELSE child
            IN sift_down_to_bottom(Swap(data, pos, c), start, c)
       ELSE IF child = end - 1
            THEN sift_up(Swap(data, pos, child), start, child)
            ELSE sift_up(data, start, pos)

HeapPush(data, item) == sift_up(Append(data, item), 0, Len(data))

HeapPeek(data) == data[1]

\* The heap after pop(); the popped item is HeapPeek(data).
HeapPop(data) ==
    LET n == Len(data)
    IN IF n = 1
       THEN <<>>
       ELSE sift_down_to_bottom([i \in 1..(n - 1) |-> IF i = 1 THEN data[n] ELSE data[i]], 0, 0)

(***************************************************************************)
(* State.                                                                  *)
(***************************************************************************)
VARIABLES
    proc_id,              \* SimulationBuilder.proc_id: the id the next participant gets
    pools,                \* SimulationBuilder.pools: pool name -> ids in the order added
    pc,                   \* "built", "running", "done" (run returned), "deadlock" (exit(1))
    bandwidth,            \* BandwidthQueue.bandwidth: USIZE_MAX for Unbounded
    CLOCK,                \* global::clock::CLOCK
    TSO,                  \* global::tso::TSO
    global_queue,         \* BandwidthQueue.global_queue.queue (LatencyQueue)
    merged_fifo_buffers,  \* BandwidthQueue.merged_fifo_buffers
    total_pased,          \* BandwidthQueue.total_pased
    working_timers,       \* TimerManager.working_timers
    process_on_execution, \* SimulationAccess.process_on_execution
    scheduled_messages,   \* SimulationAccess.scheduled_messages
    scheduled_timers,     \* SimulationAccess.scheduled_timers
    time_budget,          \* Simulation.time_budget
    prev_log,             \* Simulation.progress_bar.prev_log
    sends,                \* history: every send_to / broadcast call, indexed by payload id
    sent,                 \* history: every routed message created, indexed by its mid
    timers,               \* history: every schedule_timer_after call
    log,                  \* history: every handler callback dispatched by a step
    combiner,             \* helpers::Combiner: values, threshold, idx
    combine_calls,        \* history: every Combiner::combine call, its value and what it returned
    replicas,             \* abd_store::Replica of every member of the pool Replicas
    clients,              \* abd_store::client::Client of every member of the pool Clients
    linearizable_history, \* the anykv entry "linearizable_history"
    issued,               \* history: every operation a client chose, in the order chosen
    answers               \* history: every ClientResponse a replica sent

vars == <<proc_id, pools, pc, bandwidth, CLOCK, TSO, global_queue, merged_fifo_buffers, total_pased,
          working_timers, process_on_execution, scheduled_messages, scheduled_timers,
          time_budget, prev_log, sends, sent, timers, log, combiner, combine_calls,
          replicas, clients, linearizable_history, issued, answers>>

\* The state outside the simulation core: the helpers a handler may own.
abd_vars == <<replicas, clients, linearizable_history, issued, answers>>

outside_vars == <<combiner, combine_calls, abd_vars>>

\* Combiner::new
combiner_new(threshold) == [values |-> <<>>, threshold |-> threshold, idx |-> 0]

\* No ABD store is built.
AbdIdle ==
    /\ replicas = <<>>
    /\ clients = <<>>
    /\ linearizable_history = <<>>
    /\ issued = <<>>
    /\ answers = <<>>

\* No Combiner is in use and no ABD store is built: the specifications of
\* the simulation core leave them alone.
OutsideIdle ==
    /\ combiner = combiner_new(1)
    /\ combine_calls = <<>>
    /\ AbdIdle

(***************************************************************************)
(* What a handler callback does: a sequence of API calls.                  *)
(***************************************************************************)
Sizes == {0, MaxSize}
Delays == {0, 1, MaxDelay}
Latencies == 0..MaxLatency
Bandwidths == {USIZE_MAX} \cup 1..MaxBandwidth

SendTo(to, size) ==
    [api |-> "send_to", to |-> to, size |-> size, after |-> 0]
Broadcast(size) ==
    [api |-> "broadcast", to |-> 0, size |-> size, after |-> 0]
ScheduleTimerAfter(after) ==
    [api |-> "schedule_timer_after", to |-> 0, size |-> 0, after |-> after]

ApiCalls ==
    {SendTo(to, size) : to \in ProcessIds, size \in Sizes}
    \cup {Broadcast(size) : size \in Sizes}
    \cup {ScheduleTimerAfter(after) : after \in Delays}

RECURSIVE SeqsUpTo(_, _)
SeqsUpTo(S, n) ==
    IF n = 0
    THEN {<<>>}
    ELSE LET shorter == SeqsUpTo(S, n - 1)
         IN shorter \cup {Append(s, x) : s \in {t \in shorter : Len(t) = n - 1}, x \in S}

Callbacks == SeqsUpTo(ApiCalls, MaxEffects)

(***************************************************************************)
(* global::tso and global::clock.                                          *)
(***************************************************************************)
\* Variant: the counter is read but not advanced.
global_unique_id_stuck(tso) == [id |-> tso, tso |-> tso]

\* global_unique_id returns TSO.replace(TSO.get() + 1): the value before the
\* increment.
global_unique_id(tso) == [id |-> tso, tso |-> tso + 1]

next_timer_id(tso) == global_unique_id(tso)

\* Variant: the clock is left where it is.
fast_forward_clock_stay(present, future) == present

fast_forward_clock(present, future) == future

(***************************************************************************)
(* SimulationAccess: the API calls of one callback append to the buffers.  *)
(* acc = [process_on_execution, scheduled_messages, scheduled_timers, tso,  *)
(* sends, timers]; `handler` is the participant whose callback is running  *)
(* and goes into the histories only.                                       *)
(***************************************************************************)
To(id) == [kind |-> "To", to |-> id, pool |-> ""]
DestBroadcastWithinPool(name) == [kind |-> "BroadcastWithinPool", to |-> 0, pool |-> name]

access_send_to(acc, handler, to, size) ==
    [acc EXCEPT
        !.scheduled_messages = Append(@,
            [source |-> acc.process_on_execution,
             destination |-> To(to),
             message |-> [id |-> Len(acc.sends) + 1, size |-> size]]),
        !.sends = Append(@, [by |-> handler, destination |-> To(to), size |-> size])]

access_broadcast_within_pool(acc, handler, pool_name, size) ==
    [acc EXCEPT
        !.scheduled_messages = Append(@,
            [source |-> acc.process_on_execution,
             destination |-> DestBroadcastWithinPool(pool_name),
             message |-> [id |-> Len(acc.sends) + 1, size |-> size]]),
        !.sends = Append(@, [by |-> handler, destination |-> DestBroadcastWithinPool(pool_name),
                             size |-> size])]

\* broadcast(m) is broadcast_within_pool(GLOBAL_POOL, m).
access_broadcast(acc, handler, size) ==
    access_broadcast_within_pool(acc, handler, GLOBAL_POOL, size)

access_schedule_timer_after(acc, handler, after, now) ==
    LET fresh == next_timer_id(acc.tso)
    IN [acc EXCEPT
        !.scheduled_timers = Append(@,
            [source |-> acc.process_on_execution, timer_id |-> fresh.id, after |-> after]),
        !.tso = fresh.tso,
        !.timers = Append(@,
            [returned |-> fresh.id, by |-> handler, at |-> now, after |-> after])]

RECURSIVE run_callback(_, _, _, _)
run_callback(acc, handler, calls, now) ==
    IF calls = <<>>
    THEN acc
    ELSE LET call == Head(calls)
             next ==
                 CASE call.api = "send_to" -> access_send_to(acc, handler, call.to, call.size)
                   [] call.api = "broadcast" -> access_broadcast(acc, handler, call.size)
                   [] call.api = "broadcast_within_pool" ->
                          access_broadcast_within_pool(acc, handler, call.pool, call.size)
                   [] OTHER -> access_schedule_timer_after(acc, handler, call.after, now)
         IN run_callback(next, handler, Tail(calls), now)

\* Variant: the current participant is left as it was.
set_process_stale(acc, id) == acc

set_process(acc, id) == [acc EXCEPT !.process_on_execution = id]

(***************************************************************************)
(* Nursery: start_single and deliver set the current participant and run   *)
(* the callback of the handler stored under that id.                       *)
(***************************************************************************)
nursery_start_single(acc, id, calls, now) ==
    run_callback(set_process(acc, id), id, calls, now)

nursery_deliver(acc, to, calls, now) ==
    run_callback(set_process(acc, to), to, calls, now)

(***************************************************************************)
(* LatencyQueue and BandwidthQueue.                                        *)
(* bq = [bandwidth, global_queue, merged_fifo_buffers, total_pased].       *)
(* An Option is a sequence: <<>> is None, <<x>> is Some(x).                *)
(***************************************************************************)
\* The latency sampled by randomizer.random_usize is the input `sample`.
\* Variant: the sampled latency is not added.
latency_queue_push_no_sample(queue, message, sample) ==
    HeapPush(queue, message)

latency_queue_push(queue, message, sample) ==
    HeapPush(queue, [message EXCEPT !.arrival_time = @ + sample])

bandwidth_queue_push(bq, message, sample) ==
    [bq EXCEPT !.global_queue = latency_queue_push(@, message, sample)]

\* The match of pop and peek_closest: TRUE when the latency queue's head is
\* taken, FALSE when the buffers' head is.  Not used when both are empty.
latency_head_first(bq) ==
    /\ bq.global_queue # <<>>
    /\ \/ bq.merged_fifo_buffers = <<>>
       \/ HeapPeek(bq.global_queue).arrival_time
              <= HeapPeek(bq.merged_fifo_buffers).arrival_time

bandwidth_queue_peek_closest(bq) ==
    IF bq.global_queue = <<>> /\ bq.merged_fifo_buffers = <<>>
    THEN <<>>
    ELSE IF latency_head_first(bq)
         THEN <<HeapPeek(bq.global_queue).arrival_time>>
         ELSE <<HeapPeek(bq.merged_fifo_buffers).arrival_time>>

\* Variant: the arrival time is rewritten whether or not the budget is exceeded.
restamp_unconditional(message, total_pased_dest, bw, now) ==
    [message EXCEPT !.arrival_time = (total_pased_dest + message.message.size) \div bw]

restamp(message, total_pased_dest, bw, now) ==
    LET new_total == total_pased_dest + message.message.size
    IN IF new_total > now * bw
       THEN [message EXCEPT !.arrival_time = new_total \div bw]
       ELSE message

\* Variant: the bytes are counted when the message enters the buffers.
move_message_counting_bytes(bq, now) ==
    LET message == HeapPeek(bq.global_queue)
    IN [bq EXCEPT
           !.global_queue = HeapPop(@),
           !.total_pased[message.dest] = @ + message.message.size,
           !.merged_fifo_buffers =
               HeapPush(@, restamp(message, bq.total_pased[message.dest], bq.bandwidth, now))]

move_message_from_latency_queue_to_buffers(bq, now) ==
    LET message == HeapPeek(bq.global_queue)
    IN [bq EXCEPT
           !.global_queue = HeapPop(@),
           !.merged_fifo_buffers =
               HeapPush(@, restamp(message, bq.total_pased[message.dest], bq.bandwidth, now))]

\* Variant: the head of the buffers is returned but stays in the heap.
deliver_from_buffer_keep(bq) ==
    LET message == HeapPeek(bq.merged_fifo_buffers)
    IN [bq |-> [bq EXCEPT !.total_pased[message.dest] = @ + message.message.size],
        out |-> <<message>>]

\* Variant: the head of the buffers is handed over without counting its bytes.
deliver_from_buffer_uncounted(bq) ==
    LET message == HeapPeek(bq.merged_fifo_buffers)
    IN [bq |-> [bq EXCEPT !.merged_fifo_buffers = HeapPop(@)],
        out |-> <<message>>]

deliver_from_buffer(bq) ==
    LET message == HeapPeek(bq.merged_fifo_buffers)
    IN [bq |-> [bq EXCEPT
                   !.merged_fifo_buffers = HeapPop(@),
                   !.total_pased[message.dest] = @ + message.message.size],
        out |-> <<message>>]

\* Variant: the latency queue's head goes through the buffers in either mode.
deliver_from_latency_queue_through_buffers(bq, now) ==
    [bq |-> move_message_from_latency_queue_to_buffers(bq, now), out |-> <<>>]

\* Variant: the latency queue's head is handed over directly in either mode.
deliver_from_latency_queue_fast_path(bq, now) ==
    [bq |-> [bq EXCEPT !.global_queue = HeapPop(@)],
     out |-> <<HeapPeek(bq.global_queue)>>]

deliver_from_latency_queue(bq, now) ==
    IF bq.bandwidth = USIZE_MAX
    THEN [bq |-> [bq EXCEPT !.global_queue = HeapPop(@)],
          out |-> <<HeapPeek(bq.global_queue)>>]
    ELSE [bq |-> move_message_from_latency_queue_to_buffers(bq, now), out |-> <<>>]

bandwidth_queue_pop(bq, now) ==
    IF bq.global_queue = <<>> /\ bq.merged_fifo_buffers = <<>>
    THEN [bq |-> bq, out |-> <<>>]
    ELSE IF latency_head_first(bq)
         THEN deliver_from_latency_queue(bq, now)
         ELSE deliver_from_buffer(bq)

(***************************************************************************)
(* Network: EventSubmitter::submit and submit_single_message.              *)
(* net = [bq, sent]: the bandwidth queue and the history of routed         *)
(* messages; a routed message's mid is its index in the history.           *)
(***************************************************************************)
\* Variant: a message may arrive within the tick it was submitted in.
base_arrival_time_same_tick(now) == now

\* submit_single_message: "Without any latency message will arrive on next
\* timepoint".
base_arrival_time(now) == now + 1

\* Variant: a broadcast reaches only the first member of the pool.
targets_of_first_only(destination) ==
    IF destination.kind = "To"
    THEN <<destination.to>>
    ELSE <<Head(list_pool(destination.pool))>>

targets_of(destination) ==
    IF destination.kind = "To"
    THEN <<destination.to>>
    ELSE list_pool(destination.pool)

RECURSIVE push_targets(_, _, _, _, _, _)
push_targets(net, targets, source, message, now, samples) ==
    IF targets = <<>>
    THEN net
    ELSE LET mid == Len(net.sent) + 1
             routed_message ==
                 [arrival_time |-> base_arrival_time(now), source |-> source, dest |-> Head(targets),
                  message |-> message, mid |-> mid]
             pushed ==
                 [bq |-> bandwidth_queue_push(net.bq, routed_message, samples[mid]),
                  sent |-> Append(net.sent,
                      [mid |-> mid, source |-> source, dest |-> Head(targets),
                       message |-> message, t_submit |-> now, latency |-> samples[mid],
                       moved |-> 0, moved_at |-> 0, passed_before |-> 0,
                       buffer_time |-> 0])]
         IN push_targets(pushed, Tail(targets), source, message, now, samples)

submit_single_message(net, message, source, destination, now, samples) ==
    push_targets(net, targets_of(destination), source, message, now, samples)

RECURSIVE network_submit(_, _, _, _)
network_submit(net, events, now, samples) ==
    IF events = <<>>
    THEN net
    ELSE LET e == Head(events)
         IN network_submit(
                submit_single_message(net, e.message, e.source, e.destination, now, samples),
                Tail(events), now, samples)

\* Routed messages a drain of `events` creates.
RECURSIVE NumRouted(_)
NumRouted(events) ==
    IF events = <<>>
    THEN 0
    ELSE Len(targets_of(Head(events).destination)) + NumRouted(Tail(events))

(***************************************************************************)
(* TimerManager: BinaryHeap<Reverse<(Jiffies, (ProcessId, TimerId))>>.     *)
(* The tuples are totally ordered and distinct, so the heap is the set of  *)
(* its entries and its head is the least tuple.                            *)
(***************************************************************************)
timer_entry_le(a, b) ==
    \/ a.time < b.time
    \/ a.time = b.time /\ a.process < b.process
    \/ a.time = b.time /\ a.process = b.process /\ a.timer_id <= b.timer_id

timer_head(entries) == CHOOSE a \in entries : \A b \in entries : timer_entry_le(a, b)

\* Variant: the timer manager never reports a pending timer.
timer_manager_peek_closest_none(entries) == <<>>

timer_manager_peek_closest(entries) ==
    IF entries = {} THEN <<>> ELSE <<timer_head(entries).time>>

timer_manager_submit(entries, events, now) ==
    entries \cup {[time |-> now + events[i].after, process |-> events[i].source,
                   timer_id |-> events[i].timer_id] : i \in 1..Len(events)}

(***************************************************************************)
(* Simulation::peek_closest over actors = [network, timers].               *)
(***************************************************************************)
\* Variant: a timer due at the network's earliest time takes the step.
simulation_peek_closest_timers_on_tie(network_time, timers_time) ==
    LET after_network ==
            IF network_time # <<>> /\ network_time[1] < USIZE_MAX
            THEN [min_time |-> network_time[1], sha |-> "network"]
            ELSE [min_time |-> USIZE_MAX, sha |-> "none"]
        after_timers ==
            IF timers_time # <<>> /\ timers_time[1] <= after_network.min_time
            THEN [min_time |-> timers_time[1], sha |-> "timers"]
            ELSE after_network
    IN IF after_timers.sha = "none" THEN <<>> ELSE <<after_timers>>

simulation_peek_closest(network_time, timers_time) ==
    LET after_network ==
            IF network_time # <<>> /\ network_time[1] < USIZE_MAX
            THEN [min_time |-> network_time[1], sha |-> "network"]
            ELSE [min_time |-> USIZE_MAX, sha |-> "none"]
        after_timers ==
            IF timers_time # <<>> /\ timers_time[1] < after_network.min_time
            THEN [min_time |-> timers_time[1], sha |-> "timers"]
            ELSE after_network
    IN IF after_timers.sha = "none" THEN <<>> ELSE <<after_timers>>

(***************************************************************************)
(* progress::Bar.                                                          *)
(***************************************************************************)
K_PROGRESS_TIMES == 20

bar_delta(total) == total \div K_PROGRESS_TIMES

\* make_progress divides by delta: the result is <<>> when that panics.
make_progress(prev, delta, time) ==
    IF delta = 0
    THEN <<>>
    ELSE LET d == time \div delta
         IN <<IF d > prev THEN d ELSE prev>>

(***************************************************************************)
(* The state as the records the operators above work on.                   *)
(***************************************************************************)
BQ ==
    [bandwidth |-> bandwidth, global_queue |-> global_queue,
     merged_fifo_buffers |-> merged_fifo_buffers, total_pased |-> total_pased]

Access ==
    [process_on_execution |-> process_on_execution,
     scheduled_messages |-> scheduled_messages, scheduled_timers |-> scheduled_timers,
     tso |-> TSO, sends |-> sends, timers |-> timers]

WithinCaps(acc) ==
    /\ Len(acc.sends) <= MaxSends
    /\ Len(acc.timers) <= MaxTimers
    /\ Len(acc.sends) + Len(acc.timers) <= MaxCalls

SampleSets(acc) ==
    [(Len(sent) + 1)..(Len(sent) + NumRouted(acc.scheduled_messages)) -> Latencies]

\* Variant: the buffered events are handed over but stay in the buffers.
drain_keep_buffers(bq, history, entries, acc, now, samples) ==
    LET net == network_submit([bq |-> bq, sent |-> history],
                              acc.scheduled_messages, now, samples)
    IN /\ global_queue' = net.bq.global_queue
       /\ merged_fifo_buffers' = net.bq.merged_fifo_buffers
       /\ total_pased' = net.bq.total_pased
       /\ sent' = net.sent
       /\ working_timers' = timer_manager_submit(entries, acc.scheduled_timers, now)
       /\ scheduled_messages' = acc.scheduled_messages
       /\ scheduled_timers' = acc.scheduled_timers
       /\ process_on_execution' = acc.process_on_execution
       /\ TSO' = acc.tso
       /\ sends' = acc.sends
       /\ timers' = acc.timers

\* global::schedule() after an actor's start or step: SimulationAccess::drain
\* hands the buffered messages to the network and the buffered timers to the
\* timer manager, and leaves both buffers empty.
drain(bq, history, entries, acc, now, samples) ==
    LET net == network_submit([bq |-> bq, sent |-> history],
                              acc.scheduled_messages, now, samples)
    IN /\ global_queue' = net.bq.global_queue
       /\ merged_fifo_buffers' = net.bq.merged_fifo_buffers
       /\ total_pased' = net.bq.total_pased
       /\ sent' = net.sent
       /\ working_timers' = timer_manager_submit(entries, acc.scheduled_timers, now)
       /\ scheduled_messages' = <<>>
       /\ scheduled_timers' = <<>>
       /\ process_on_execution' = acc.process_on_execution
       /\ TSO' = acc.tso
       /\ sends' = acc.sends
       /\ timers' = acc.timers

\* The end of Simulation::step: progress_bar.make_progress(future.min(time_budget)).
progress(future) ==
    LET made == make_progress(prev_log, bar_delta(time_budget), Min(future, time_budget))
    IN IF made = <<>>
       THEN pc' = "panic" /\ prev_log' = prev_log
       ELSE pc' = "running" /\ prev_log' = made[1]

\* One callback invocation: `time` is now() as the callback sees it, `due` the
\* time its event carried in the queue it was popped from.
Entry(callback, time, due, process, from, message, mid, timer_id) ==
    [callback |-> callback, time |-> time, due |-> due, process |-> process,
     from |-> from, message |-> message, mid |-> mid, timer_id |-> timer_id]

NoMessage == [id |-> 0, size |-> 0]

(***************************************************************************)
(* Simulation::new.                                                        *)
(***************************************************************************)
Init ==
    /\ proc_id = NumProcs + 1
    /\ pools = pool_listing
    /\ pc = "built"
    /\ bandwidth \in Bandwidths
    /\ time_budget \in {SmallBudget, TimeBudget}
    /\ prev_log = 0
    /\ CLOCK = 0
    /\ TSO = 0
    /\ global_queue = <<>>
    /\ merged_fifo_buffers = <<>>
    /\ total_pased = [d \in 0..NumProcs |-> 0]
    /\ working_timers = {}
    /\ process_on_execution = 0
    /\ scheduled_messages = <<>>
    /\ scheduled_timers = <<>>
    /\ sends = <<>>
    /\ sent = <<>>
    /\ timers = <<>>
    /\ log = <<>>
    /\ OutsideIdle

(***************************************************************************)
(* Simulation::start: Network::start runs every participant's start        *)
(* callback in id order, then the context is drained (and once more, with  *)
(* nothing buffered, after TimerManager::start).                           *)
(***************************************************************************)
\* Variant: the start callbacks run from the highest id down.
RECURSIVE start_all_descending(_, _, _, _)
start_all_descending(acc, id, calls, now) ==
    IF id > NumProcs
    THEN acc
    ELSE start_all_descending(
             nursery_start_single(acc, NumProcs + 1 - id, calls[NumProcs + 1 - id], now),
             id + 1, calls, now)

RECURSIVE start_all(_, _, _, _)
start_all(acc, id, calls, now) ==
    IF id > NumProcs
    THEN acc
    ELSE start_all(nursery_start_single(acc, id, calls[id], now), id + 1, calls, now)

Start ==
    /\ pc = "built"
    /\ \E calls \in [ProcessIds -> Callbacks] :
          LET acc == start_all(Access, 1, calls, CLOCK)
          IN /\ WithinCaps(acc)
             /\ \E samples \in SampleSets(acc) :
                   drain(BQ, sent, working_timers, acc, CLOCK, samples)
             /\ log' = log \o [id \in ProcessIds |->
                                  Entry("start", CLOCK, 0, id, 0, NoMessage, 0, -1)]
    /\ pc' = "running"
    /\ UNCHANGED <<outside_vars, proc_id, pools, bandwidth, CLOCK, time_budget, prev_log>>

(***************************************************************************)
(* Simulation::step.                                                       *)
(***************************************************************************)
closest ==
    simulation_peek_closest(bandwidth_queue_peek_closest(BQ),
                            timer_manager_peek_closest(working_timers))

\* Variant: one more step is taken when the clock stands at the budget.
Stepping_inclusive == pc = "running" /\ CLOCK <= time_budget

Stepping == pc = "running" /\ CLOCK < time_budget

\* peek_closest is None: error!("DEADLOCK!"), exit(1).
Deadlock ==
    /\ Stepping
    /\ closest = <<>>
    /\ pc' = "deadlock"
    /\ UNCHANGED <<outside_vars, proc_id, pools, bandwidth, CLOCK, TSO, global_queue, merged_fifo_buffers, total_pased,
                   working_timers, process_on_execution, scheduled_messages,
                   scheduled_timers, time_budget, prev_log, sends, sent, timers, log>>

Moved == {i \in 1..Len(sent) : sent[i].moved > 0}

\* Network::step when the bandwidth queue's pop returns None: the latency
\* queue's head went to the buffers and no handler runs.
NetworkMove ==
    /\ Stepping
    /\ closest # <<>>
    /\ closest[1].sha = "network"
    /\ LET future == closest[1].min_time
           now == fast_forward_clock(CLOCK, future)
           popped == bandwidth_queue_pop(BQ, now)
           head == HeapPeek(global_queue)
           stamped == restamp(head, total_pased[head.dest], bandwidth, now)
       IN /\ popped.out = <<>>
          /\ CLOCK' = now
          /\ drain(popped.bq,
                   [sent EXCEPT ![head.mid].moved = Cardinality(Moved) + 1,
                                ![head.mid].moved_at = now,
                                ![head.mid].passed_before = total_pased[head.dest],
                                ![head.mid].buffer_time = stamped.arrival_time],
                   working_timers, Access, now, <<>>)
          /\ progress(future)
    /\ UNCHANGED <<outside_vars, proc_id, pools, bandwidth, time_budget, log>>

\* Network::step when pop returns a message: Nursery::deliver sets the
\* current participant and runs its on_message.
NetworkDeliver ==
    /\ Stepping
    /\ closest # <<>>
    /\ closest[1].sha = "network"
    /\ LET future == closest[1].min_time
           now == fast_forward_clock(CLOCK, future)
           popped == bandwidth_queue_pop(BQ, now)
       IN /\ popped.out # <<>>
          /\ CLOCK' = now
          /\ LET m == popped.out[1]
             IN \E calls \in Callbacks :
                   LET acc == nursery_deliver(Access, m.dest, calls, now)
                   IN /\ WithinCaps(acc)
                      /\ \E samples \in SampleSets(acc) :
                            drain(popped.bq, sent, working_timers, acc, now, samples)
                      /\ log' = Append(log,
                            Entry("on_message", now, m.arrival_time, m.dest, m.source,
                                  m.message, m.mid, -1))
          /\ progress(future)
    /\ UNCHANGED <<outside_vars, proc_id, pools, bandwidth, time_budget>>

\* TimerManager::step: the heap's head fires into its owner's on_timer.
TimerFire ==
    /\ Stepping
    /\ closest # <<>>
    /\ closest[1].sha = "timers"
    /\ LET future == closest[1].min_time
           now == fast_forward_clock(CLOCK, future)
           head == timer_head(working_timers)
       IN /\ CLOCK' = now
          /\ \E calls \in Callbacks :
                LET acc == nursery_deliver(Access, head.process, calls, now)
                IN /\ WithinCaps(acc)
                   /\ \E samples \in SampleSets(acc) :
                         drain(BQ, sent, working_timers \ {head}, acc, now, samples)
                   /\ log' = Append(log,
                         Entry("on_timer", now, head.time, head.process, head.process,
                               NoMessage, 0, head.timer_id))
          /\ progress(future)
    /\ UNCHANGED <<outside_vars, proc_id, pools, bandwidth, time_budget>>

\* Variant: the loop is left as soon as the clock has moved.
Finish_once_moved ==
    /\ pc = "running"
    /\ CLOCK > 0
    /\ pc' = "done"
    /\ UNCHANGED <<outside_vars, proc_id, pools, bandwidth, CLOCK, TSO, global_queue,
                   merged_fifo_buffers, total_pased, working_timers, process_on_execution,
                   scheduled_messages, scheduled_timers, time_budget, prev_log, sends,
                   sent, timers, log>>

\* Simulation::run leaves its loop: now() >= time_budget.
Finish ==
    /\ pc = "running"
    /\ CLOCK >= time_budget
    /\ pc' = "done"
    /\ UNCHANGED <<outside_vars, proc_id, pools, bandwidth, CLOCK, TSO, global_queue, merged_fifo_buffers, total_pased,
                   working_timers, process_on_execution, scheduled_messages,
                   scheduled_timers, time_budget, prev_log, sends, sent, timers, log>>

Next == Start \/ Deadlock \/ NetworkMove \/ NetworkDeliver \/ TimerFire \/ Finish

Spec == Init /\ [][Next]_vars

(***************************************************************************)
(* The ping-pong example: PingPongProcess on every participant, latency    *)
(* Uniform(0,0), Unbounded bandwidth.  PingPongMessage keeps the default   *)
(* virtual size 0.                                                         *)
(***************************************************************************)
PingPongBudgets == TimeBudget..(TimeBudget + PingPongSpread)

\* PingPongProcess::Start
ping_pong_start(rank) ==
    IF rank = 1 THEN <<SendTo(2, 0)>> ELSE <<>>

\* PingPongProcess::OnMessage
ping_pong_on_message(rank, from) ==
    IF from = 1 /\ rank = 2
    THEN <<SendTo(1, 0)>>
    ELSE IF from = 2 /\ rank = 1
         THEN <<SendTo(2, 0)>>
         ELSE <<>>

\* Uniform(0,0): every sample is 0.
ZeroSamples(acc) ==
    [i \in (Len(sent) + 1)..(Len(sent) + NumRouted(acc.scheduled_messages)) |-> 0]

InitPingPong ==
    /\ proc_id = NumProcs + 1
    /\ pools = pool_listing
    /\ pc = "built"
    /\ bandwidth = USIZE_MAX
    /\ time_budget \in PingPongBudgets
    /\ prev_log = 0
    /\ CLOCK = 0
    /\ TSO = 0
    /\ global_queue = <<>>
    /\ merged_fifo_buffers = <<>>
    /\ total_pased = [d \in 0..NumProcs |-> 0]
    /\ working_timers = {}
    /\ process_on_execution = 0
    /\ scheduled_messages = <<>>
    /\ scheduled_timers = <<>>
    /\ sends = <<>>
    /\ sent = <<>>
    /\ timers = <<>>
    /\ log = <<>>
    /\ OutsideIdle

PingPongStart ==
    /\ pc = "built"
    /\ LET acc == start_all(Access, 1, [id \in ProcessIds |-> ping_pong_start(id)], CLOCK)
       IN /\ drain(BQ, sent, working_timers, acc, CLOCK, ZeroSamples(acc))
          /\ log' = log \o [id \in ProcessIds |->
                               Entry("start", CLOCK, 0, id, 0, NoMessage, 0, -1)]
    /\ pc' = "running"
    /\ UNCHANGED <<outside_vars, proc_id, pools, bandwidth, CLOCK, time_budget, prev_log>>

PingPongDeliver ==
    /\ Stepping
    /\ closest # <<>>
    /\ closest[1].sha = "network"
    /\ LET future == closest[1].min_time
           now == fast_forward_clock(CLOCK, future)
           popped == bandwidth_queue_pop(BQ, now)
       IN /\ popped.out # <<>>
          /\ CLOCK' = now
          /\ LET m == popped.out[1]
                 acc == nursery_deliver(Access, m.dest,
                                        ping_pong_on_message(m.dest, m.source), now)
             IN /\ drain(popped.bq, sent, working_timers, acc, now, ZeroSamples(acc))
                /\ log' = Append(log,
                      Entry("on_message", now, m.arrival_time, m.dest, m.source,
                            m.message, m.mid, -1))
          /\ progress(future)
    /\ UNCHANGED <<outside_vars, proc_id, pools, bandwidth, time_budget>>

NextPingPong == PingPongStart \/ PingPongDeliver \/ Finish

SpecPingPong == InitPingPong /\ [][NextPingPong]_vars

(***************************************************************************)
(* A burst workload: participant 1's start sends up to BurstLen messages   *)
(* to participant 2, every other start emits nothing, and no on_message    *)
(* emits anything.  All traffic goes to one destination, so the bandwidth  *)
(* accounting of that destination is exercised with more messages than the *)
(* general workload allows.                                                *)
(***************************************************************************)
Bursts == SeqsUpTo({SendTo(2, size) : size \in Sizes}, BurstLen)

InitBurst ==
    /\ proc_id = NumProcs + 1
    /\ pools = pool_listing
    /\ pc = "built"
    /\ bandwidth \in Bandwidths
    /\ time_budget = TimeBudget
    /\ prev_log = 0
    /\ CLOCK = 0
    /\ TSO = 0
    /\ global_queue = <<>>
    /\ merged_fifo_buffers = <<>>
    /\ total_pased = [d \in 0..NumProcs |-> 0]
    /\ working_timers = {}
    /\ process_on_execution = 0
    /\ scheduled_messages = <<>>
    /\ scheduled_timers = <<>>
    /\ sends = <<>>
    /\ sent = <<>>
    /\ timers = <<>>
    /\ log = <<>>
    /\ OutsideIdle

BurstStart ==
    /\ pc = "built"
    /\ \E burst \in Bursts :
          LET acc == start_all(Access, 1,
                               [id \in ProcessIds |-> IF id = 1 THEN burst ELSE <<>>], CLOCK)
          IN /\ \E samples \in SampleSets(acc) :
                   drain(BQ, sent, working_timers, acc, CLOCK, samples)
             /\ log' = log \o [id \in ProcessIds |->
                                  Entry("start", CLOCK, 0, id, 0, NoMessage, 0, -1)]
    /\ pc' = "running"
    /\ UNCHANGED <<outside_vars, proc_id, pools, bandwidth, CLOCK, time_budget, prev_log>>

\* Network::step when pop returns a message and the recipient's on_message
\* emits nothing.
QuietDeliver ==
    /\ Stepping
    /\ closest # <<>>
    /\ closest[1].sha = "network"
    /\ LET future == closest[1].min_time
           now == fast_forward_clock(CLOCK, future)
           popped == bandwidth_queue_pop(BQ, now)
       IN /\ popped.out # <<>>
          /\ CLOCK' = now
          /\ LET m == popped.out[1]
                 acc == nursery_deliver(Access, m.dest, <<>>, now)
             IN /\ drain(popped.bq, sent, working_timers, acc, now, <<>>)
                /\ log' = Append(log,
                      Entry("on_message", now, m.arrival_time, m.dest, m.source,
                            m.message, m.mid, -1))
          /\ progress(future)
    /\ UNCHANGED <<outside_vars, proc_id, pools, bandwidth, time_budget>>

NextBurst == BurstStart \/ NetworkMove \/ QuietDeliver \/ Deadlock

SpecBurst == InitBurst /\ [][NextBurst]_vars

(***************************************************************************)
(* The bandwidth example: participant 1 is the Sender, participant 2 the   *)
(* Receiver, latency Uniform(ThrottleLatency, ThrottleLatency), and every  *)
(* DataMessage has virtual size MaxSize (1000 in the example).             *)
(***************************************************************************)
ThrottleBudgets == TimeBudget..(TimeBudget + ThrottleSpread)

\* Sender::start; Receiver::start is empty.
sender_start(rank) ==
    IF rank = 1 THEN <<ScheduleTimerAfter(1)>> ELSE <<>>

\* Sender::on_timer; Receiver::on_timer is empty.
sender_on_timer(rank) ==
    IF rank = 1 THEN <<SendTo(2, MaxSize), ScheduleTimerAfter(1)>> ELSE <<>>

\* Uniform(ThrottleLatency, ThrottleLatency): every sample is ThrottleLatency.
FixedSamples(acc) ==
    [i \in (Len(sent) + 1)..(Len(sent) + NumRouted(acc.scheduled_messages)) |->
        ThrottleLatency]

InitThrottle ==
    /\ proc_id = NumProcs + 1
    /\ pools = pool_listing
    /\ pc = "built"
    /\ bandwidth \in Bandwidths
    /\ time_budget \in ThrottleBudgets
    /\ prev_log = 0
    /\ CLOCK = 0
    /\ TSO = 0
    /\ global_queue = <<>>
    /\ merged_fifo_buffers = <<>>
    /\ total_pased = [d \in 0..NumProcs |-> 0]
    /\ working_timers = {}
    /\ process_on_execution = 0
    /\ scheduled_messages = <<>>
    /\ scheduled_timers = <<>>
    /\ sends = <<>>
    /\ sent = <<>>
    /\ timers = <<>>
    /\ log = <<>>
    /\ OutsideIdle

ThrottleStart ==
    /\ pc = "built"
    /\ LET acc == start_all(Access, 1, [id \in ProcessIds |-> sender_start(id)], CLOCK)
       IN /\ drain(BQ, sent, working_timers, acc, CLOCK, FixedSamples(acc))
          /\ log' = log \o [id \in ProcessIds |->
                               Entry("start", CLOCK, 0, id, 0, NoMessage, 0, -1)]
    /\ pc' = "running"
    /\ UNCHANGED <<outside_vars, proc_id, pools, bandwidth, CLOCK, time_budget, prev_log>>

ThrottleTimerFire ==
    /\ Stepping
    /\ closest # <<>>
    /\ closest[1].sha = "timers"
    /\ LET future == closest[1].min_time
           now == fast_forward_clock(CLOCK, future)
           head == timer_head(working_timers)
           acc == nursery_deliver(Access, head.process, sender_on_timer(head.process), now)
       IN /\ CLOCK' = now
          /\ drain(BQ, sent, working_timers \ {head}, acc, now, FixedSamples(acc))
          /\ log' = Append(log,
                Entry("on_timer", now, head.time, head.process, head.process,
                      NoMessage, 0, head.timer_id))
          /\ progress(future)
    /\ UNCHANGED <<outside_vars, proc_id, pools, bandwidth, time_budget>>

NextThrottle ==
    ThrottleStart \/ ThrottleTimerFire \/ NetworkMove \/ QuietDeliver \/ Finish

SpecThrottle == InitThrottle /\ [][NextThrottle]_vars

(***************************************************************************)
(* The BandwidthQueue of src/matrix: under Unbounded bandwidth the latency *)
(* queue's head is pushed to the buffers with its arrival time unchanged   *)
(* and handed over from there by a later step; there is no fast path.  The *)
(* workload is quiet: every start emits at most one message and no         *)
(* on_message emits anything, so the traffic is what the starts submitted. *)
(***************************************************************************)
\* Latencies of the quiet workload: TimeBudget - 1 makes a message submitted
\* at time 0 arrive at the budget exactly.
QuietLatencies == Latencies \cup {TimeBudget - 1}

QuietStarts ==
    {<<>>} \cup {<<SendTo(to, 0)>> : to \in ProcessIds} \cup {<<Broadcast(0)>>}

QuietSampleSets(acc) ==
    [(Len(sent) + 1)..(Len(sent) + NumRouted(acc.scheduled_messages)) -> QuietLatencies]

MoveMessageFromLatencyQueueToBuffers(bq, now) ==
    LET message == HeapPeek(bq.global_queue)
    IN IF bq.bandwidth = USIZE_MAX
       THEN [bq EXCEPT
                !.global_queue = HeapPop(@),
                !.merged_fifo_buffers = HeapPush(@, message)]
       ELSE [bq EXCEPT
                !.global_queue = HeapPop(@),
                !.merged_fifo_buffers =
                    HeapPush(@, restamp(message, bq.total_pased[message.dest],
                                        bq.bandwidth, now))]

DeliverFromLatencyQueue(bq, now) ==
    [bq |-> MoveMessageFromLatencyQueueToBuffers(bq, now), out |-> <<>>]

DeliverFromBuffer(bq) ==
    LET message == HeapPeek(bq.merged_fifo_buffers)
    IN [bq |-> [bq EXCEPT
                   !.merged_fifo_buffers = HeapPop(@),
                   !.total_pased[message.dest] = @ + message.message.size],
        out |-> <<message>>]

Pop(bq, now) ==
    IF bq.global_queue = <<>> /\ bq.merged_fifo_buffers = <<>>
    THEN [bq |-> bq, out |-> <<>>]
    ELSE IF latency_head_first(bq)
         THEN DeliverFromLatencyQueue(bq, now)
         ELSE DeliverFromBuffer(bq)

InitMatrix ==
    /\ proc_id = NumProcs + 1
    /\ pools = pool_listing
    /\ pc = "built"
    /\ bandwidth = USIZE_MAX
    /\ time_budget = TimeBudget
    /\ prev_log = 0
    /\ CLOCK = 0
    /\ TSO = 0
    /\ global_queue = <<>>
    /\ merged_fifo_buffers = <<>>
    /\ total_pased = [d \in 0..NumProcs |-> 0]
    /\ working_timers = {}
    /\ process_on_execution = 0
    /\ scheduled_messages = <<>>
    /\ scheduled_timers = <<>>
    /\ sends = <<>>
    /\ sent = <<>>
    /\ timers = <<>>
    /\ log = <<>>
    /\ OutsideIdle

QuietStart ==
    /\ pc = "built"
    /\ \E calls \in [ProcessIds -> QuietStarts] :
          LET acc == start_all(Access, 1, calls, CLOCK)
          IN /\ \E samples \in QuietSampleSets(acc) :
                   drain(BQ, sent, working_timers, acc, CLOCK, samples)
             /\ log' = log \o [id \in ProcessIds |->
                                  Entry("start", CLOCK, 0, id, 0, NoMessage, 0, -1)]
    /\ pc' = "running"
    /\ UNCHANGED <<outside_vars, proc_id, pools, bandwidth, CLOCK, time_budget, prev_log>>

\* Network::Step when Pop returns None: the latency queue's head went to the
\* buffers.
MatrixMove ==
    /\ Stepping
    /\ closest # <<>>
    /\ closest[1].sha = "network"
    /\ LET future == closest[1].min_time
           now == fast_forward_clock(CLOCK, future)
           popped == Pop(BQ, now)
           head == HeapPeek(global_queue)
       IN /\ popped.out = <<>>
          /\ CLOCK' = now
          /\ drain(popped.bq,
                   [sent EXCEPT ![head.mid].moved = Cardinality(Moved) + 1,
                                ![head.mid].moved_at = now,
                                ![head.mid].passed_before = total_pased[head.dest],
                                ![head.mid].buffer_time = head.arrival_time],
                   working_timers, Access, now, <<>>)
          /\ progress(future)
    /\ UNCHANGED <<outside_vars, proc_id, pools, bandwidth, time_budget, log>>

\* Network::Step when Pop returns a message from the buffers.
MatrixDeliver ==
    /\ Stepping
    /\ closest # <<>>
    /\ closest[1].sha = "network"
    /\ LET future == closest[1].min_time
           now == fast_forward_clock(CLOCK, future)
           popped == Pop(BQ, now)
       IN /\ popped.out # <<>>
          /\ CLOCK' = now
          /\ LET m == popped.out[1]
                 acc == nursery_deliver(Access, m.dest, <<>>, now)
             IN /\ drain(popped.bq, sent, working_timers, acc, now, <<>>)
                /\ log' = Append(log,
                      Entry("on_message", now, m.arrival_time, m.dest, m.source,
                            m.message, m.mid, -1))
          /\ progress(future)
    /\ UNCHANGED <<outside_vars, proc_id, pools, bandwidth, time_budget>>

NextMatrix == QuietStart \/ MatrixMove \/ MatrixDeliver \/ Deadlock \/ Finish

SpecMatrix == InitMatrix /\ [][NextMatrix]_vars

\* The same workload and scheduler over the BandwidthQueue of src/dscale.
NextQuiet == QuietStart \/ QuietDeliver \/ Deadlock \/ Finish

SpecQuiet == InitMatrix /\ [][NextQuiet]_vars

(***************************************************************************)
(* SimulationBuilder: add_pool calls hand out the ids and fill the pools;  *)
(* build turns the pools into the topology's pool listing.  The pool names *)
(* are the callers' own: GLOBAL_POOL is reserved.                          *)
(***************************************************************************)
PoolNames == {"Senders", "Receivers", "ExamplePool"}

NoPools == [name \in {} |-> <<>>]

\* Variant: a participant is put at the front of its pool.
add_to_pool_front(listing, name, id) ==
    [n \in DOMAIN listing \cup {name} |->
        IF n = name
        THEN IF n \in DOMAIN listing THEN <<id>> \o listing[n] ELSE <<id>>
        ELSE listing[n]]

\* self.pools.entry(name).or_default().push((id, handle))
add_to_pool(listing, name, id) ==
    [n \in DOMAIN listing \cup {name} |->
        IF n = name
        THEN IF n \in DOMAIN listing THEN Append(listing[n], id) ELSE <<id>>
        ELSE listing[n]]

\* builder = [proc_id, pools]
RECURSIVE add_pool(_, _, _)
add_pool(builder, name, size) ==
    IF size = 0
    THEN builder
    ELSE LET id == builder.proc_id
         IN add_pool(
                [proc_id |-> id + 1,
                 pools |-> add_to_pool(add_to_pool(builder.pools, name, id), GLOBAL_POOL, id)],
                name, size - 1)

\* SimulationBuilder::default()
InitBuilder ==
    /\ proc_id = 1
    /\ pools = NoPools
    /\ pc = "default"
    /\ bandwidth = USIZE_MAX
    /\ time_budget = TimeBudget
    /\ prev_log = 0
    /\ CLOCK = 0
    /\ TSO = 0
    /\ global_queue = <<>>
    /\ merged_fifo_buffers = <<>>
    /\ total_pased = [d \in 0..NumProcs |-> 0]
    /\ working_timers = {}
    /\ process_on_execution = 0
    /\ scheduled_messages = <<>>
    /\ scheduled_timers = <<>>
    /\ sends = <<>>
    /\ sent = <<>>
    /\ timers = <<>>
    /\ log = <<>>
    /\ OutsideIdle

AddPool ==
    /\ pc = "default"
    /\ \E name \in PoolNames, size \in 0..MaxPoolSize :
          /\ proc_id + size - 1 <= MaxParticipants
          /\ LET builder == add_pool([proc_id |-> proc_id, pools |-> pools], name, size)
             IN /\ proc_id' = builder.proc_id
                /\ pools' = builder.pools
    /\ UNCHANGED <<outside_vars, pc, bandwidth, CLOCK, TSO, global_queue, merged_fifo_buffers,
                   total_pased, working_timers, process_on_execution, scheduled_messages,
                   scheduled_timers, time_budget, prev_log, sends, sent, timers, log>>

\* SimulationBuilder::build: the ids of every pool, in the pool's order,
\* become the pool listing.
Build ==
    /\ pc = "default"
    /\ pc' = "built"
    /\ UNCHANGED <<outside_vars, proc_id, pools, bandwidth, CLOCK, TSO, global_queue, merged_fifo_buffers,
                   total_pased, working_timers, process_on_execution, scheduled_messages,
                   scheduled_timers, time_budget, prev_log, sends, sent, timers, log>>

NextBuilder == AddPool \/ Build

SpecBuilder == InitBuilder /\ [][NextBuilder]_vars

(***************************************************************************)
(* Topology lookups.  The simulation is built from two pools, "Senders"    *)
(* (participants 1..NumProcs-1) and "Receivers" (participant NumProcs),    *)
(* with a latency description within each pool and none between them, so   *)
(* the pairs across the two pools have no distribution.  A start callback  *)
(* may address any participant, the id NumProcs + 1 that nobody has, any   *)
(* pool, and a pool name that was never declared.                          *)
(***************************************************************************)
LookupPools ==
    add_pool(add_pool([proc_id |-> 1, pools |-> NoPools], "Senders", NumProcs - 1),
             "Receivers", 1)

\* WithinPool(name, _) is the pair <<name, name>>, BetweenPools(a, b, _) the
\* pair <<a, b>>.
LookupDescriptions == {<<"Senders", "Senders">>, <<"Receivers", "Receivers">>}

\* SimulationBuilder::latency_topology: the keys of the LatencyTopology map.
latency_topology(listing, descriptions) ==
    UNION {(SeqToSet(listing[d[1]]) \X SeqToSet(listing[d[2]]))
           \cup (SeqToSet(listing[d[2]]) \X SeqToSet(listing[d[1]])) : d \in descriptions}

\* Variant: a pair without a distribution gets one.
get_distribution_default(topology, from, to) == <<Latencies>>

\* Topology::get_distribution: <<>> is the miss that expect("No distr found")
\* turns into a panic.
get_distribution(topology, from, to) ==
    IF <<from, to>> \in topology THEN <<Latencies>> ELSE <<>>

\* Topology::list_pool: <<>> is the miss that expect("Invalid pool name")
\* turns into a panic.
topology_list_pool(listing, name) ==
    IF name \in DOMAIN listing THEN <<listing[name]>> ELSE <<>>

\* Nursery::start_single / deliver: procs.get(&id), <<>> is the miss that
\* expect("Invalid ProcessId") turns into a panic.
nursery_get(id) == IF id \in ProcessIds THEN <<id>> ELSE <<>>

BroadcastWithinPool(name, size) ==
    [api |-> "broadcast_within_pool", to |-> 0, size |-> size, after |-> 0, pool |-> name]

LookupCallbacks ==
    {<<>>}
    \cup {<<SendTo(to, 0)>> : to \in 1..(NumProcs + 1)}
    \cup {<<BroadcastWithinPool(name, 0)>> :
             name \in {GLOBAL_POOL, "Senders", "Receivers", "Nowhere"}}

\* LatencyQueue::push for each target in turn; the first target without a
\* distribution aborts the run with the earlier targets already pushed.
RECURSIVE lookup_push_targets(_, _, _, _, _, _, _)
lookup_push_targets(net, topology, targets, source, message, now, samples) ==
    IF targets = <<>>
    THEN [net |-> net, fatal |-> FALSE]
    ELSE IF get_distribution(topology, source, Head(targets)) = <<>>
         THEN [net |-> net, fatal |-> TRUE]
         ELSE lookup_push_targets(
                  push_targets(net, <<Head(targets)>>, source, message, now, samples),
                  topology, Tail(targets), source, message, now, samples)

\* Network::submit_single_message with the lookups that can miss.
lookup_submit_single_message(net, listing, topology, event, now, samples) ==
    LET targets ==
            IF event.destination.kind = "To"
            THEN <<<<event.destination.to>>>>
            ELSE topology_list_pool(listing, event.destination.pool)
    IN IF targets = <<>>
       THEN [net |-> net, fatal |-> TRUE]
       ELSE lookup_push_targets(net, topology, targets[1], event.source, event.message,
                                now, samples)

RECURSIVE lookup_submit(_, _, _, _, _, _)
lookup_submit(net, listing, topology, events, now, samples) ==
    IF events = <<>>
    THEN [net |-> net, fatal |-> FALSE]
    ELSE LET first == lookup_submit_single_message(net, listing, topology, Head(events),
                                                   now, samples)
         IN IF first.fatal
            THEN first
            ELSE lookup_submit(first.net, listing, topology, Tail(events), now, samples)

\* The number of latency samples a drain of these events can draw: one for
\* each target of each event whose pool is declared.
RECURSIVE LookupRouted(_, _)
LookupRouted(listing, events) ==
    IF events = <<>>
    THEN 0
    ELSE LET destination == Head(events).destination
         IN (IF destination.kind = "To"
             THEN 1
             ELSE IF destination.pool \in DOMAIN listing
                  THEN Len(listing[destination.pool])
                  ELSE 0)
            + LookupRouted(listing, Tail(events))

InitLookups ==
    /\ proc_id = LookupPools.proc_id
    /\ pools = LookupPools.pools
    /\ pc = "built"
    /\ bandwidth = USIZE_MAX
    /\ time_budget = TimeBudget
    /\ prev_log = 0
    /\ CLOCK = 0
    /\ TSO = 0
    /\ global_queue = <<>>
    /\ merged_fifo_buffers = <<>>
    /\ total_pased = [d \in 0..NumProcs |-> 0]
    /\ working_timers = {}
    /\ process_on_execution = 0
    /\ scheduled_messages = <<>>
    /\ scheduled_timers = <<>>
    /\ sends = <<>>
    /\ sent = <<>>
    /\ timers = <<>>
    /\ log = <<>>
    /\ OutsideIdle

\* Simulation::start: every start callback runs, then the drain submits what
\* they buffered; a lookup that misses aborts the run there.
LookupStart ==
    /\ pc = "built"
    /\ \E calls \in [ProcessIds -> LookupCallbacks] :
          LET acc == start_all(Access, 1, calls, CLOCK)
          IN \E samples \in [1..LookupRouted(pools, acc.scheduled_messages) -> Latencies] :
                LET submitted ==
                        lookup_submit([bq |-> BQ, sent |-> sent], pools,
                                      latency_topology(pools, LookupDescriptions),
                                      acc.scheduled_messages, CLOCK, samples)
                IN /\ global_queue' = submitted.net.bq.global_queue
                   /\ merged_fifo_buffers' = submitted.net.bq.merged_fifo_buffers
                   /\ total_pased' = submitted.net.bq.total_pased
                   /\ sent' = submitted.net.sent
                   /\ pc' = IF submitted.fatal THEN "panic" ELSE "running"
                   /\ working_timers' =
                          timer_manager_submit(working_timers, acc.scheduled_timers, CLOCK)
                   /\ scheduled_messages' = <<>>
                   /\ scheduled_timers' = <<>>
                   /\ process_on_execution' = acc.process_on_execution
                   /\ TSO' = acc.tso
                   /\ sends' = acc.sends
                   /\ timers' = acc.timers
    /\ log' = log \o [id \in ProcessIds |->
                         Entry("start", CLOCK, 0, id, 0, NoMessage, 0, -1)]
    /\ UNCHANGED <<outside_vars, proc_id, pools, bandwidth, CLOCK, time_budget, prev_log>>

\* Network::step: the popped message is dispatched through Nursery::deliver,
\* which aborts the run when nobody has the destination's id.
LookupDeliver ==
    /\ Stepping
    /\ closest # <<>>
    /\ closest[1].sha = "network"
    /\ LET future == closest[1].min_time
           now == fast_forward_clock(CLOCK, future)
           popped == bandwidth_queue_pop(BQ, now)
       IN /\ popped.out # <<>>
          /\ CLOCK' = now
          /\ LET m == popped.out[1]
             IN IF nursery_get(m.dest) = <<>>
                THEN /\ pc' = "panic"
                     /\ global_queue' = popped.bq.global_queue
                     /\ UNCHANGED <<merged_fifo_buffers, total_pased, sent, working_timers,
                                    scheduled_messages, scheduled_timers,
                                    process_on_execution, TSO, sends, timers, log, prev_log>>
                ELSE LET acc == nursery_deliver(Access, m.dest, <<>>, now)
                     IN /\ drain(popped.bq, sent, working_timers, acc, now, <<>>)
                        /\ log' = Append(log,
                              Entry("on_message", now, m.arrival_time, m.dest, m.source,
                                    m.message, m.mid, -1))
                        /\ progress(future)
    /\ UNCHANGED <<outside_vars, proc_id, pools, bandwidth, time_budget>>

NextLookups == LookupStart \/ LookupDeliver \/ Deadlock

SpecLookups == InitLookups /\ [][NextLookups]_vars

(***************************************************************************)
(* The simulation context.  ACCESS_HANDLE holds the SimulationAccess from  *)
(* Simulation::new (called by SimulationBuilder::build) until the          *)
(* Simulation is dropped.  The code that owns the simulation may call the  *)
(* handler API itself, outside any callback: before the simulation is      *)
(* built, after run() returned, and after the simulation was dropped.      *)
(***************************************************************************)
\* thread_local ACCESS_HANDLE: RefCell<Option<SimulationAccess>>, None at
\* first and again after drop_access; it is not read in an aborted run.
ACCESS_HANDLE == IF pc \in {"default", "dropped"} THEN <<>> ELSE <<Access>>

\* SimulationAccess::new: nobody on execution, empty buffers.
NewAccess ==
    [process_on_execution |-> 0, scheduled_messages |-> <<>>, scheduled_timers |-> <<>>,
     tso |-> TSO, sends |-> sends, timers |-> timers]

SendRandomFromPool(name, size) ==
    [api |-> "send_random_from_pool", to |-> 0, size |-> size, after |-> 0, pool |-> name]
Rank ==
    [api |-> "rank", to |-> 0, size |-> 0, after |-> 0, pool |-> ""]
ListPool(name) ==
    [api |-> "list_pool", to |-> 0, size |-> 0, after |-> 0, pool |-> name]
ChooseFromPool(name) ==
    [api |-> "choose_from_pool", to |-> 0, size |-> 0, after |-> 0, pool |-> name]

ContextCalls ==
    {SendTo(to, 0) : to \in ProcessIds}
    \cup {Broadcast(0), BroadcastWithinPool("ExamplePool", 0),
          SendRandomFromPool("ExamplePool", 0), ScheduleTimerAfter(1),
          Rank, ListPool("ExamplePool"), ChooseFromPool("ExamplePool")}

\* The closure each API function hands to with_access.  chosen is the
\* participant that choose_from_pool draws for send_random_from_pool; rank,
\* list_pool and choose_from_pool only return a value.
access_call(acc, call, now, chosen) ==
    CASE call.api \in {"send_to", "broadcast", "broadcast_within_pool",
                       "schedule_timer_after"} ->
             run_callback(acc, acc.process_on_execution, <<call>>, now)
      [] call.api = "send_random_from_pool" ->
             access_send_to(acc, acc.process_on_execution, chosen, call.size)
      [] OTHER -> acc

\* Variant: without a context the closure runs on a fresh SimulationAccess.
with_access_default(handle, call, now, chosen) ==
    [fatal |-> FALSE,
     access |-> <<access_call(IF handle = <<>> THEN NewAccess ELSE handle[1],
                              call, now, chosen)>>]

\* with_access: f(access.as_mut().expect("Out of simulation context")).
with_access(handle, call, now, chosen) ==
    IF handle = <<>>
    THEN [fatal |-> TRUE, access |-> <<>>]
    ELSE [fatal |-> FALSE, access |-> <<access_call(handle[1], call, now, chosen)>>]

InitContext ==
    /\ proc_id = 1
    /\ pools = NoPools
    /\ pc = "default"
    /\ bandwidth = USIZE_MAX
    /\ time_budget \in PingPongBudgets
    /\ prev_log = 0
    /\ CLOCK = 0
    /\ TSO = 0
    /\ global_queue = <<>>
    /\ merged_fifo_buffers = <<>>
    /\ total_pased = [d \in 0..NumProcs |-> 0]
    /\ working_timers = {}
    /\ process_on_execution = 0
    /\ scheduled_messages = <<>>
    /\ scheduled_timers = <<>>
    /\ sends = <<>>
    /\ sent = <<>>
    /\ timers = <<>>
    /\ log = <<>>
    /\ OutsideIdle

\* add_pool("ExamplePool", NumProcs) and build(): Simulation::new installs the
\* context (setup_access).
Setup ==
    /\ pc = "default"
    /\ LET builder == add_pool([proc_id |-> proc_id, pools |-> pools], "ExamplePool",
                               NumProcs)
       IN /\ proc_id' = builder.proc_id
          /\ pools' = builder.pools
    /\ pc' = "built"
    /\ UNCHANGED <<outside_vars, bandwidth, CLOCK, TSO, global_queue, merged_fifo_buffers,
                   total_pased, working_timers, process_on_execution, scheduled_messages,
                   scheduled_timers, time_budget, prev_log, sends, sent, timers, log>>

\* An API function called by the code that owns the simulation, before the
\* simulation is built, after run() returned or after the simulation was
\* dropped.  After run() nothing drains the buffers any more, so one buffered
\* effect is all that is followed there.
ContextCall ==
    /\ pc \in {"default", "done", "dropped"}
    /\ Len(scheduled_messages) + Len(scheduled_timers) < MaxEffects
    /\ \E call \in ContextCalls, chosen \in ProcessIds :
          LET result == with_access(ACCESS_HANDLE, call, CLOCK, chosen)
          IN IF result.fatal
             THEN /\ pc' = "panic"
                  /\ UNCHANGED <<process_on_execution, scheduled_messages, scheduled_timers,
                                 TSO, sends, timers>>
             ELSE /\ pc' = pc
                  /\ process_on_execution' = result.access[1].process_on_execution
                  /\ scheduled_messages' = result.access[1].scheduled_messages
                  /\ scheduled_timers' = result.access[1].scheduled_timers
                  /\ TSO' = result.access[1].tso
                  /\ sends' = result.access[1].sends
                  /\ timers' = result.access[1].timers
    /\ UNCHANGED <<outside_vars, proc_id, pools, bandwidth, CLOCK, global_queue, merged_fifo_buffers,
                   total_pased, working_timers, time_budget, prev_log, sent, log>>

\* drop_clock: CLOCK.take() leaves the default, Jiffies(0).
drop_clock(clock) == 0

\* Variant: the id source is left where the run took it.
drop_tso_keep(tso) == tso

\* drop_tso: TSO.take() leaves the default, 0.
drop_tso(tso) == 0

\* impl Drop for Simulation: global::drop_all takes CLOCK, TSO and
\* ACCESS_HANDLE back to their defaults; the SimulationAccess and its buffers
\* are gone.  The queues of the dropped actors are not read any more.
Drop ==
    /\ pc \in {"built", "done"}
    /\ pc' = "dropped"
    /\ CLOCK' = drop_clock(CLOCK)
    /\ TSO' = drop_tso(TSO)
    /\ process_on_execution' = 0
    /\ scheduled_messages' = <<>>
    /\ scheduled_timers' = <<>>
    /\ UNCHANGED <<outside_vars, proc_id, pools, bandwidth, global_queue, merged_fifo_buffers,
                   total_pased, working_timers, time_budget, prev_log, sends, sent,
                   timers, log>>

\* The simulation that is built, run and dropped is the ping-pong example.
NextContext ==
    Setup \/ PingPongStart \/ PingPongDeliver \/ Finish \/ ContextCall \/ Drop

SpecContext == InitContext /\ [][NextContext]_vars

(***************************************************************************)
(* Repeated runs in one process: the simulation of the bandwidth example   *)
(* is run, dropped, and a simulation with the same configuration is built  *)
(* and run again (run_unbounded and run_bounded of the example build their *)
(* simulations one after the other).  The histories go on over all runs.   *)
(***************************************************************************)
MaxRuns == 2

\* The positions of the log where a run begins: the start callback of
\* participant 1.
RunStarts == {i \in DOMAIN log : log[i].callback = "start" /\ log[i].process = 1}

\* SimulationBuilder::build / Simulation::new once more: fresh Network,
\* TimerManager, progress bar and SimulationAccess.  The thread-locals CLOCK
\* and TSO are not touched: they are as drop_all left them.
Rebuild ==
    /\ pc = "dropped"
    /\ Cardinality(RunStarts) < MaxRuns
    /\ pc' = "built"
    /\ global_queue' = <<>>
    /\ merged_fifo_buffers' = <<>>
    /\ total_pased' = [d \in 0..NumProcs |-> 0]
    /\ working_timers' = {}
    /\ prev_log' = 0
    /\ process_on_execution' = 0
    /\ scheduled_messages' = <<>>
    /\ scheduled_timers' = <<>>
    /\ UNCHANGED <<outside_vars, proc_id, pools, bandwidth, CLOCK, TSO, time_budget, sends, sent,
                   timers, log>>

NextRepeat ==
    ThrottleStart \/ ThrottleTimerFire \/ NetworkMove \/ QuietDeliver \/ Finish
    \/ Drop \/ Rebuild

SpecRepeat == InitThrottle /\ [][NextRepeat]_vars

(***************************************************************************)
(* helpers::Combiner, on its own: one Combiner is created with a threshold *)
(* and values are handed to combine one after the other.                   *)
(***************************************************************************)
MaxThreshold == 3
MaxCombines == 5
MaxValue == 2

\* Variant: the early return is missing, so values keep being stored.
combine_keep_storing(c, value) ==
    LET pushed == [c EXCEPT !.values = Append(@, value), !.idx = @ + 1]
    IN [combiner |-> pushed,
        returned |-> IF pushed.idx = pushed.threshold THEN <<pushed.values>> ELSE <<>>]

\* Combiner::combine: <<>> is None, <<values>> is Some(&values).
combine(c, value) ==
    IF c.idx >= c.threshold
    THEN [combiner |-> c, returned |-> <<>>]
    ELSE LET pushed == [c EXCEPT !.values = Append(@, value), !.idx = @ + 1]
         IN [combiner |-> pushed,
             returned |-> IF pushed.idx = pushed.threshold THEN <<pushed.values>> ELSE <<>>]

\* No simulation is built while the Combiner is exercised.
Unbuilt ==
    /\ proc_id = 1
    /\ pools = NoPools
    /\ pc = "default"
    /\ bandwidth = USIZE_MAX
    /\ time_budget = TimeBudget
    /\ prev_log = 0
    /\ CLOCK = 0
    /\ TSO = 0
    /\ global_queue = <<>>
    /\ merged_fifo_buffers = <<>>
    /\ total_pased = [d \in 0..NumProcs |-> 0]
    /\ working_timers = {}
    /\ process_on_execution = 0
    /\ scheduled_messages = <<>>
    /\ scheduled_timers = <<>>
    /\ sends = <<>>
    /\ sent = <<>>
    /\ timers = <<>>
    /\ log = <<>>

InitCombiner ==
    /\ Unbuilt
    /\ \E threshold \in 1..MaxThreshold : combiner = combiner_new(threshold)
    /\ combine_calls = <<>>
    /\ AbdIdle

Combine ==
    /\ Len(combine_calls) < MaxCombines
    /\ \E value \in 1..MaxValue :
          LET result == combine(combiner, value)
          IN /\ combiner' = result.combiner
             /\ combine_calls' = Append(combine_calls,
                                        [value |-> value, returned |-> result.returned])
    /\ UNCHANGED <<proc_id, pools, pc, bandwidth, CLOCK, TSO, global_queue,
                   merged_fifo_buffers, total_pased, working_timers, process_on_execution,
                   scheduled_messages, scheduled_timers, time_budget, prev_log, sends,
                   sent, timers, log, abd_vars>>

NextCombiner == Combine

SpecCombiner == InitCombiner /\ [][NextCombiner]_vars

(***************************************************************************)
(* Termination of run(): the bandwidth example, whose sender re-arms a     *)
(* timer of delay 1 for ever, under budgets below and above                *)
(* K_PROGRESS_TIMES.  run() is a loop that takes a step whenever one can   *)
(* be taken, which is weak fairness of the next-state relation.            *)
(***************************************************************************)
TerminationBudgets == {SmallBudget} \cup ThrottleBudgets

InitTermination ==
    /\ proc_id = NumProcs + 1
    /\ pools = pool_listing
    /\ pc = "built"
    /\ bandwidth \in Bandwidths
    /\ time_budget \in TerminationBudgets
    /\ prev_log = 0
    /\ CLOCK = 0
    /\ TSO = 0
    /\ global_queue = <<>>
    /\ merged_fifo_buffers = <<>>
    /\ total_pased = [d \in 0..NumProcs |-> 0]
    /\ working_timers = {}
    /\ process_on_execution = 0
    /\ scheduled_messages = <<>>
    /\ scheduled_timers = <<>>
    /\ sends = <<>>
    /\ sent = <<>>
    /\ timers = <<>>
    /\ log = <<>>
    /\ OutsideIdle

SpecTermination == InitTermination /\ [][NextThrottle]_vars /\ WF_vars(NextThrottle)

(***************************************************************************)
(* The budget test at machine-word width.  usize is modelled with WordBits *)
(* bits, so usize::MAX, the Unbounded sentinel, is WORD_MAX and            *)
(* Bounded(B) ranges over the other nonzero words.  A usize multiplication *)
(* that overflows panics in a build with overflow checks and wraps around  *)
(* in a build without them.  The workload is the burst workload.           *)
(***************************************************************************)
WordBits == 5

WORD == 2 ^ WordBits

WORD_MAX == WORD - 1

WordBandwidths == 1..(WORD_MAX - 1)

\* usize * usize: <<>> is the panic of a build with overflow checks.
usize_mul(a, b, overflow_checks) ==
    IF a * b > WORD_MAX /\ overflow_checks THEN <<>> ELSE <<(a * b) % WORD>>

\* move_message_from_latency_queue_to_buffers with the product
\* now().0 * self.bandwidth taken at word width: <<>> when it panics.
restamp_usize(message, total_pased_dest, bw, now, overflow_checks) ==
    LET new_total == total_pased_dest + message.message.size
        product == usize_mul(now, bw, overflow_checks)
    IN IF product = <<>>
       THEN <<>>
       ELSE IF new_total > product[1]
            THEN <<[message EXCEPT !.arrival_time = new_total \div bw]>>
            ELSE <<message>>

InitWord ==
    /\ proc_id = NumProcs + 1
    /\ pools = pool_listing
    /\ pc = "built"
    /\ bandwidth \in WordBandwidths
    /\ time_budget = TimeBudget
    /\ prev_log = 0
    /\ CLOCK = 0
    /\ TSO = 0
    /\ global_queue = <<>>
    /\ merged_fifo_buffers = <<>>
    /\ total_pased = [d \in 0..NumProcs |-> 0]
    /\ working_timers = {}
    /\ process_on_execution = 0
    /\ scheduled_messages = <<>>
    /\ scheduled_timers = <<>>
    /\ sends = <<>>
    /\ sent = <<>>
    /\ timers = <<>>
    /\ log = <<>>
    /\ OutsideIdle

\* Network::step when the latency queue's head wins under Bounded(B): the
\* head is re-stamped with word arithmetic and goes to the buffers, or the
\* multiplication panics.
WordMove ==
    /\ Stepping
    /\ closest # <<>>
    /\ closest[1].sha = "network"
    /\ latency_head_first(BQ) = TRUE
    /\ LET future == closest[1].min_time
           now == fast_forward_clock(CLOCK, future)
           head == HeapPeek(global_queue)
       IN \E overflow_checks \in BOOLEAN :
             LET stamped == restamp_usize(head, total_pased[head.dest], bandwidth, now,
                                          overflow_checks)
             IN /\ CLOCK' = now
                /\ IF stamped = <<>>
                   THEN /\ pc' = "panic"
                        /\ global_queue' = HeapPop(global_queue)
                        /\ UNCHANGED <<merged_fifo_buffers, total_pased, sent, working_timers,
                                       scheduled_messages, scheduled_timers,
                                       process_on_execution, TSO, sends, timers, prev_log>>
                   ELSE /\ drain([BQ EXCEPT
                                     !.global_queue = HeapPop(@),
                                     !.merged_fifo_buffers = HeapPush(@, stamped[1])],
                                 [sent EXCEPT ![head.mid].moved = Cardinality(Moved) + 1,
                                              ![head.mid].moved_at = now,
                                              ![head.mid].passed_before = total_pased[head.dest],
                                              ![head.mid].buffer_time = stamped[1].arrival_time],
                                 working_timers, Access, now, <<>>)
                        /\ progress(future)
    /\ UNCHANGED <<outside_vars, proc_id, pools, bandwidth, time_budget, log>>

NextWord == BurstStart \/ WordMove \/ QuietDeliver \/ Deadlock

SpecWord == InitWord /\ [][NextWord]_vars

(***************************************************************************)
(* The ABD store of src/systems/kv: the pool Replicas of Replica, each     *)
(* with one MWMRAtomicRegister per key, and the pool Clients of Client.    *)
(* Bandwidth is Unbounded, so the network hands the latency queue's head   *)
(* straight to its destination.  Every message carries `op`, the index in  *)
(* `issued` of the client operation it was sent for; no handler reads it.  *)
(***************************************************************************)
NumReplicas == 2     \* size of the pool Replicas (10 in the example)
NumClients == 1      \* size of the pool Clients (4 in the example)
MaxOps == 3          \* operations a client issues before the last timer of the run
SlowLatency == 200   \* the slow sample between Clients and Replicas (Uniform(0, 1212))

REPLICA_POOL_NAME == "Replicas"

CLIENT_POOL_NAME == "Clients"

\* The period of Client's timer: ScheduleTimerAfter(Jiffies(100)).
OpPeriod == 100

\* Client::default: the keys a client chooses from, cut down to the first.
keypool == <<1>>

\* add_pool(REPLICA_POOL_NAME, ..) then add_pool(CLIENT_POOL_NAME, ..).
AbdPools ==
    [name \in {GLOBAL_POOL, REPLICA_POOL_NAME, CLIENT_POOL_NAME} |->
        IF name = GLOBAL_POOL
        THEN [i \in 1..(NumReplicas + NumClients) |-> i]
        ELSE IF name = REPLICA_POOL_NAME
             THEN [i \in 1..NumReplicas |-> i]
             ELSE [i \in 1..NumClients |-> NumReplicas + i]]

\* time_budget: long enough for MaxOps operations; the timer due at the
\* budget fires as the last step.
AbdBudget == OpPeriod * (MaxOps + 1)

\* latency_topology of the example: the samples drawn for source -> dest.
abd_distribution(listing, source, dest) ==
    IF /\ source \in SeqToSet(listing[REPLICA_POOL_NAME])
       /\ dest \in SeqToSet(listing[REPLICA_POOL_NAME])
    THEN {0}
    ELSE {0, SlowLatency}

\* global::configuration::process_number: every participant, of every pool.
process_number(listing) == Len(listing[GLOBAL_POOL])

\* Replica::quorum_size
quorum_size(proc_num) == proc_num \div 2 + 1

\* MWMRAtomicRegister::new.  pending_read_quorums is keyed by r = 1, 2, ..
\* and so is a sequence; pending_write_quorums is a function of timestamps.
register_new(key) ==
    [key |-> key, local_value |-> 0, local_ts |-> 0, t |-> 0, r |-> 0,
     pending_read_quorums |-> <<>>, pending_write_quorums |-> <<>>]

\* HashMap::insert: an entry under the same key is replaced.
hash_map_insert(map, key, value) ==
    [k \in DOMAIN map \cup {key} |-> IF k = key THEN value ELSE map[k]]

SendToReplicas(message) == [destination |-> DestBroadcastWithinPool(REPLICA_POOL_NAME),
                            message |-> message]

SendOne(to, message) == [destination |-> To(to), message |-> message]

\* MWMRAtomicRegister::write and ::read: `resume` is Write(client, value) or
\* Read(client).  The result is the register and what the call sent.
register_begin(register, resume, op) ==
    LET r == register.r + 1
    IN [register |-> [register EXCEPT
                         !.r = r,
                         !.pending_read_quorums =
                             Append(@, [resume |-> resume, read_quorum |-> <<>>, op |-> op])],
        out |-> <<SendToReplicas([type |-> "RegisterReadRequest", key |-> register.key,
                                  r |-> r, op |-> op])>>,
        answers |-> <<>>]

register_write(register, client, value, op) ==
    register_begin(register, [kind |-> "Write", client |-> client, value |-> value], op)

register_read(register, client, op) ==
    register_begin(register, [kind |-> "Read", client |-> client, value |-> 0], op)

\* (t, v) <= (t', v') in the lexicographic order of max_by.
StampLe(a, b) ==
    \/ a.timestamp < b.timestamp
    \/ a.timestamp = b.timestamp /\ a.value <= b.value

\* MWMRAtomicRegister::serve, RegisterReadResponse(v_, t_, r).
serve_read_response(register, m, quorum) ==
    LET info == register.pending_read_quorums[m.r]
        read_quorum == Append(info.read_quorum,
                              [value |-> m.value, timestamp |-> m.timestamp, r |-> m.r])
        pushed == [register EXCEPT !.pending_read_quorums[m.r].read_quorum = read_quorum]
        entries == SeqToSet(read_quorum)
        highest == CHOOSE a \in entries : \A b \in entries : StampLe(b, a)
    IN IF Len(read_quorum) # quorum
       THEN [register |-> pushed, out |-> <<>>, answers |-> <<>>]
       ELSE IF info.resume.kind = "Write"
            THEN LET t == highest.timestamp + 1
                 IN [register |->
                         [pushed EXCEPT
                             !.t = t,
                             !.pending_write_quorums =
                                 hash_map_insert(@, t,
                                     [resume |-> [kind |-> "Write",
                                                  client |-> info.resume.client,
                                                  value |-> 0],
                                      write_quorum |-> <<>>, op |-> info.op])],
                     out |-> <<SendToReplicas([type |-> "RegisterWriteRequest",
                                               key |-> register.key,
                                               value |-> info.resume.value,
                                               timestamp |-> t, op |-> info.op])>>,
                     answers |-> <<>>]
            ELSE [register |->
                      [pushed EXCEPT
                          !.pending_write_quorums =
                              hash_map_insert(@, highest.timestamp,
                                  [resume |-> [kind |-> "Read",
                                               client |-> info.resume.client,
                                               value |-> highest.value],
                                   write_quorum |-> <<>>, op |-> info.op])],
                  out |-> <<SendToReplicas([type |-> "RegisterWriteRequest",
                                            key |-> register.key,
                                            value |-> highest.value,
                                            timestamp |-> highest.timestamp,
                                            op |-> info.op])>>,
                  answers |-> <<>>]

\* MWMRAtomicRegister::serve, RegisterWriteAck(v, t).  An answer is recorded
\* with the operation it resumes and how many of the acknowledgements
\* counted were sent for that operation's write request.
serve_write_ack(register, m, quorum) ==
    LET info == register.pending_write_quorums[m.timestamp]
        write_quorum == Append(info.write_quorum,
                               [value |-> m.value, timestamp |-> m.timestamp, op |-> m.op])
        pushed == [register EXCEPT
                      !.pending_write_quorums[m.timestamp].write_quorum = write_quorum]
        response == IF info.resume.kind = "Write"
                    THEN [type |-> "PutAck", value |-> 0, op |-> info.op]
                    ELSE [type |-> "GetResponse", value |-> info.resume.value, op |-> info.op]
    IN IF Len(write_quorum) # quorum
       THEN [register |-> pushed, out |-> <<>>, answers |-> <<>>]
       ELSE [register |-> pushed,
             out |-> <<SendOne(info.resume.client, response)>>,
             answers |-> <<[op |-> info.op, to |-> info.resume.client,
                            type |-> response.type,
                            acks |-> Len(write_quorum),
                            own_acks |-> Cardinality({i \in DOMAIN write_quorum :
                                                        write_quorum[i].op = info.op})]>>]

\* MWMRAtomicRegister::serve
serve(register, m, from, quorum) ==
    IF m.type = "RegisterReadRequest"
    THEN [register |-> register,
          out |-> <<SendOne(from, [type |-> "RegisterReadResponse", key |-> m.key,
                                   value |-> register.local_value,
                                   timestamp |-> register.local_ts, r |-> m.r,
                                   op |-> m.op])>>,
          answers |-> <<>>]
    ELSE IF m.type = "RegisterWriteRequest"
         THEN [register |->
                   IF \/ m.timestamp > register.local_ts
                      \/ m.timestamp = register.local_ts /\ m.value > register.local_value
                   THEN [register EXCEPT !.local_value = m.value, !.local_ts = m.timestamp]
                   ELSE register,
               out |-> <<SendOne(from, [type |-> "RegisterWriteAck", key |-> m.key,
                                        value |-> m.value, timestamp |-> m.timestamp,
                                        op |-> m.op])>>,
               answers |-> <<>>]
         ELSE IF m.type = "RegisterReadResponse"
              THEN serve_read_response(register, m, quorum)
              ELSE serve_write_ack(register, m, quorum)

\* Replica::on_message.  find_register creates the register of a key on its
\* first use; here every key of keypool has its register from the start.
replica_on_message(replica, from, m) ==
    LET register == replica.registers[m.key]
        served == IF m.type = "GetRequest"
                  THEN register_read(register, from, m.op)
                  ELSE IF m.type = "PutRequest"
                       THEN register_write(register, from, m.value, m.op)
                       ELSE serve(register, m, from, quorum_size(replica.proc_num))
    IN [replica |-> [replica EXCEPT !.registers[m.key] = served.register],
        out |-> served.out, answers |-> served.answers]

\* ExecutionHistoryEntry::default.  `operation` stands for the string
\* "Get(k)" or "Put(k,v)": <<"Get", k>> or <<"Put", k, v>>; result is an Option.
NoOperation == [client |-> 0, operation |-> <<>>, result |-> <<>>, start |-> 0, end |-> 0]

\* Variant of Client::OnMessage: the entry pushed is the one of the operation
\* the response answers.
client_on_message_of_operation(client, id, m, now) ==
    LET asked == issued[m.op]
    IN [client EXCEPT
           !.current_op = [client |-> id,
                           operation |-> IF asked.kind = "Get"
                                         THEN <<"Get", asked.key>>
                                         ELSE <<"Put", asked.key, asked.value>>,
                           result |-> IF m.type = "GetResponse" THEN <<m.value>> ELSE <<>>,
                           start |-> asked.start, end |-> now]]

\* Client::OnMessage: current_op gets the client, the end and the result;
\* the caller pushes a clone of it to the history.
client_on_message(client, id, m, now) ==
    [client EXCEPT
        !.current_op.client = id,
        !.current_op.end = now,
        !.current_op.result = IF m.type = "GetResponse" THEN <<m.value>> ELSE <<>>]

\* The targets of one send, in the pool's order.
abd_targets(listing, destination) ==
    IF destination.kind = "To" THEN <<destination.to>> ELSE listing[destination.pool]

RECURSIVE abd_routes(_, _)
abd_routes(listing, out) ==
    IF out = <<>>
    THEN <<>>
    ELSE LET targets == abd_targets(listing, Head(out).destination)
         IN [i \in 1..Len(targets) |-> [dest |-> targets[i], message |-> Head(out).message]]
            \o abd_routes(listing, Tail(out))

AbdSamples(listing, source, routes) ==
    {samples \in [1..Len(routes) -> {0, SlowLatency}] :
        \A i \in 1..Len(routes) :
            samples[i] \in abd_distribution(listing, source, routes[i].dest)}

\* Network::submit_single_message for every buffered message: one
\* LatencyQueue::push per target.
RECURSIVE abd_submit(_, _, _, _, _, _)
abd_submit(queue, routes, source, now, samples, i) ==
    IF i > Len(routes)
    THEN queue
    ELSE abd_submit(
             latency_queue_push(queue,
                 [arrival_time |-> base_arrival_time(now), source |-> source,
                  dest |-> routes[i].dest, message |-> routes[i].message, mid |-> 0],
                 samples[i]),
             routes, source, now, samples, i + 1)

RECURSIVE bootstrap_timers(_, _, _)
bootstrap_timers(ids, tso, entries) ==
    IF ids = <<>>
    THEN [tso |-> tso, entries |-> entries]
    ELSE LET fresh == next_timer_id(tso)
         IN bootstrap_timers(Tail(ids), fresh.tso,
                entries \cup {[time |-> OpPeriod, process |-> Head(ids),
                               timer_id |-> fresh.id]})

\* SimulationBuilder::build of the example and anykv::set of the history.
InitAbd ==
    /\ proc_id = NumReplicas + NumClients + 1
    /\ pools = AbdPools
    /\ pc = "built"
    /\ bandwidth = USIZE_MAX
    /\ time_budget = AbdBudget
    /\ prev_log = 0
    /\ CLOCK = 0
    /\ TSO = 0
    /\ global_queue = <<>>
    /\ merged_fifo_buffers = <<>>
    /\ total_pased = [d \in 0..(NumReplicas + NumClients) |-> 0]
    /\ working_timers = {}
    /\ process_on_execution = 0
    /\ scheduled_messages = <<>>
    /\ scheduled_timers = <<>>
    /\ sends = <<>>
    /\ sent = <<>>
    /\ timers = <<>>
    /\ log = <<>>
    /\ combiner = combiner_new(1)
    /\ combine_calls = <<>>
    /\ replicas = [id \in SeqToSet(AbdPools[REPLICA_POOL_NAME]) |->
                      [proc_num |-> 0,
                       registers |-> [key \in SeqToSet(keypool) |-> register_new(key)]]]
    /\ clients = [id \in SeqToSet(AbdPools[CLIENT_POOL_NAME]) |-> [current_op |-> NoOperation]]
    /\ linearizable_history = <<>>
    /\ issued = <<>>
    /\ answers = <<>>

\* Simulation::start: Replica::start reads process_number, Client::Bootstrap
\* schedules the first timer.
AbdStart ==
    /\ pc = "built"
    /\ pc' = "running"
    /\ replicas' = [id \in DOMAIN replicas |->
                       [replicas[id] EXCEPT !.proc_num = process_number(pools)]]
    /\ LET booted == bootstrap_timers(pools[CLIENT_POOL_NAME], TSO, working_timers)
       IN /\ TSO' = booted.tso
          /\ working_timers' = booted.entries
    /\ process_on_execution' = Len(pools[GLOBAL_POOL])
    /\ UNCHANGED <<proc_id, pools, bandwidth, CLOCK, global_queue, merged_fifo_buffers,
                   total_pased, scheduled_messages, scheduled_timers, time_budget, prev_log,
                   sends, sent, timers, log, combiner, combine_calls, clients,
                   linearizable_history, issued, answers>>

\* Network::step: the latency queue's head is delivered to a Replica or to a
\* Client, and what the handler sent is submitted.
AbdDeliver ==
    /\ Stepping
    /\ closest # <<>>
    /\ closest[1].sha = "network"
    /\ LET future == closest[1].min_time
           now == fast_forward_clock(CLOCK, future)
           m == HeapPeek(global_queue)
           rest == HeapPop(global_queue)
       IN /\ CLOCK' = now
          /\ process_on_execution' = m.dest
          /\ IF m.dest \in DOMAIN replicas
             THEN LET handled == replica_on_message(replicas[m.dest], m.source, m.message)
                      routes == abd_routes(pools, handled.out)
                  IN /\ replicas' = [replicas EXCEPT ![m.dest] = handled.replica]
                     /\ answers' = answers \o handled.answers
                     /\ \E samples \in AbdSamples(pools, m.dest, routes) :
                           global_queue' = abd_submit(rest, routes, m.dest, now, samples, 1)
                     /\ UNCHANGED <<clients, linearizable_history>>
             ELSE LET handled == client_on_message(clients[m.dest], m.dest, m.message, now)
                  IN /\ clients' = [clients EXCEPT ![m.dest] = handled]
                     /\ linearizable_history' =
                            Append(linearizable_history, handled.current_op)
                     /\ global_queue' = rest
                     /\ UNCHANGED <<replicas, answers>>
          /\ progress(future)
    /\ UNCHANGED <<proc_id, pools, bandwidth, TSO, merged_fifo_buffers, total_pased,
                   working_timers, scheduled_messages, scheduled_timers, time_budget,
                   sends, sent, timers, log, combiner, combine_calls, issued>>

\* TimerManager::step into Client::OnTimer: DoRandomOperation (ChooseServer,
\* ChooseOperation, SendTo), then ScheduleTimerAfter.
AbdTimerFire ==
    /\ Stepping
    /\ closest # <<>>
    /\ closest[1].sha = "timers"
    /\ LET future == closest[1].min_time
           now == fast_forward_clock(CLOCK, future)
           head == timer_head(working_timers)
           id == head.process
       IN /\ CLOCK' = now
          /\ process_on_execution' = id
          /\ \E target \in SeqToSet(pools[REPLICA_POOL_NAME]), random_bool \in BOOLEAN,
                random_key \in SeqToSet(keypool) :
                LET chosen == IF random_bool
                              THEN [id |-> 0, tso |-> TSO]
                              ELSE global_unique_id(TSO)
                    op == Len(issued) + 1
                    request == IF random_bool
                               THEN [type |-> "GetRequest", key |-> random_key,
                                     value |-> 0, op |-> op]
                               ELSE [type |-> "PutRequest", key |-> random_key,
                                     value |-> chosen.id, op |-> op]
                    operation == IF random_bool
                                 THEN <<"Get", random_key>>
                                 ELSE <<"Put", random_key, chosen.id>>
                    routes == abd_routes(pools, <<SendOne(target, request)>>)
                    fresh == next_timer_id(chosen.tso)
                IN /\ clients' = [clients EXCEPT ![id].current_op.start = now,
                                                 ![id].current_op.operation = operation]
                   /\ issued' = Append(issued,
                          [client |-> id, target |-> target, start |-> now,
                           kind |-> IF random_bool THEN "Get" ELSE "Put",
                           key |-> random_key, value |-> chosen.id])
                   /\ \E samples \in AbdSamples(pools, id, routes) :
                         global_queue' = abd_submit(global_queue, routes, id, now, samples, 1)
                   /\ TSO' = fresh.tso
                   /\ working_timers' =
                          (working_timers \ {head})
                          \cup {[time |-> now + OpPeriod, process |-> id,
                                 timer_id |-> fresh.id]}
          /\ progress(future)
    /\ UNCHANGED <<proc_id, pools, bandwidth, merged_fifo_buffers, total_pased,
                   scheduled_messages, scheduled_timers, time_budget, sends, sent, timers,
                   log, combiner, combine_calls, replicas, linearizable_history, answers>>

NextAbd == AbdStart \/ AbdDeliver \/ AbdTimerFire \/ Finish

SpecAbd == InitAbd /\ [][NextAbd]_vars

(***************************************************************************)
(* lin_checker: the Wing-Gong search the example asserts on its history.   *)
(***************************************************************************)
\* ParseEntry: <<>> for an entry that gives no call (a Get without a result,
\* an operation that is neither "Get(k)" nor "Put(k,v)").
ParseEntry(entry) ==
    IF Len(entry.operation) = 2 /\ entry.operation[1] = "Get"
    THEN IF entry.result = <<>>
         THEN <<>>
         ELSE <<[key |-> entry.operation[2], kind |-> "Read", value |-> entry.result[1],
                 start |-> entry.start, end |-> entry.end]>>
    ELSE IF Len(entry.operation) = 3 /\ entry.operation[1] = "Put"
         THEN <<[key |-> entry.operation[2], kind |-> "Write", value |-> entry.operation[3],
                 start |-> entry.start, end |-> entry.end]>>
         ELSE <<>>

RECURSIVE ParsedCalls(_)
ParsedCalls(history) ==
    IF history = <<>> THEN <<>> ELSE ParseEntry(Head(history)) \o ParsedCalls(Tail(history))

RECURSIVE SetToSeq(_)
SetToSeq(set) ==
    IF set = {}
    THEN <<>>
    ELSE LET least == CHOOSE a \in set : \A b \in set : a <= b
         IN <<least>> \o SetToSeq(set \ {least})

\* Search: `used` is the set of indices taken so far.
RECURSIVE Search(_, _, _)
Search(ops, used, current_value) ==
    IF Cardinality(used) = Len(ops)
    THEN TRUE
    ELSE LET unused == DOMAIN ops \ used
             min_end == CHOOSE e \in {ops[i].end : i \in unused} :
                            \A j \in unused : e <= ops[j].end
         IN \E i \in unused :
               /\ ops[i].start <= min_end
               /\ ops[i].kind = "Read" => ops[i].value = current_value
               /\ Search(ops, used \cup {i},
                         IF ops[i].kind = "Write" THEN ops[i].value ELSE current_value)

CheckSingleKey(ops) == Search(ops, {}, 0)

\* The calls of one key with a Write synthesized, from time 0 to the end of
\* the first Read that saw it, for every nonzero value read and never logged
\* as a Put.  The order of the calls does not change what Search finds.
CallsOfKey(calls, key) ==
    LET ops == SelectSeq(calls, LAMBDA c : c.key = key)
        written_values == {ops[i].value : i \in {j \in DOMAIN ops : ops[j].kind = "Write"}}
        read_values == {ops[i].value :
                           i \in {j \in DOMAIN ops : ops[j].kind = "Read" /\ ops[j].value # 0}}
        missing_values == SetToSeq(read_values \ written_values)
        first_read_end(v) ==
            LET ends == {ops[i].end :
                            i \in {j \in DOMAIN ops : ops[j].kind = "Read" /\ ops[j].value = v}}
            IN CHOOSE e \in ends : \A f \in ends : e <= f
    IN ops \o [i \in 1..Len(missing_values) |->
                  [key |-> key, kind |-> "Write", value |-> missing_values[i],
                   start |-> 0, end |-> first_read_end(missing_values[i])]]

CheckLinearizable(history) ==
    LET calls == ParsedCalls(history)
    IN \A key \in {calls[i].key : i \in DOMAIN calls} :
          CheckSingleKey(CallsOfKey(calls, key))

(***************************************************************************)
(* Properties.  The histories sends, sent, timers and log are read only    *)
(* here.                                                                   *)
(***************************************************************************)
Deliveries == {i \in DOMAIN log : log[i].callback = "on_message"}

Firings == {i \in DOMAIN log : log[i].callback = "on_timer"}

DeliveriesOf(mid) == {i \in Deliveries : log[i].mid = mid}

InQueue(heap, mid) == {i \in DOMAIN heap : heap[i].mid = mid}

\* The queue times of a routed message that is still pending.
PendingTimes(mid) ==
    {global_queue[i].arrival_time : i \in InQueue(global_queue, mid)}
    \cup {merged_fifo_buffers[i].arrival_time : i \in InQueue(merged_fifo_buffers, mid)}

Bounded == bandwidth # USIZE_MAX

RECURSIVE DeliveredBytes(_, _)
DeliveredBytes(d, n) ==
    IF n = 0
    THEN 0
    ELSE DeliveredBytes(d, n - 1)
         + (IF log[n].callback = "on_message" /\ log[n].process = d
            THEN log[n].message.size
            ELSE 0)

\* C5: under Bounded(B), the virtual sizes of the messages delivered to a
\* destination up to the present time sum to at most time * B.
C5_BandwidthUpperRate ==
    Bounded => \A d \in ProcessIds : DeliveredBytes(d, Len(log)) <= CLOCK * bandwidth

\* C6: under Bounded bandwidth, a message is delivered only after every
\* message for the same destination that left the latency queue before it.
C6_FifoPerDestination ==
    Bounded =>
        \A i \in Deliveries : \A m \in Moved :
            (sent[m].dest = log[i].process /\ sent[m].moved < sent[log[i].mid].moved)
                => \E j \in DeliveriesOf(m) : j < i

Broadcasts == {b \in DOMAIN sends : sends[b].destination.kind = "BroadcastWithinPool"}

Copies(b) == {mid \in DOMAIN sent : sent[mid].message.id = b}

\* C7: a broadcast creates one routed message per member of the pool, the
\* broadcaster included, each with the broadcast payload and the broadcaster
\* as source; each copy is handed to its member's on_message at most once,
\* a copy not yet delivered is pending at a time the clock has not passed,
\* and when the run returns every copy due before the budget was delivered.
C7_BroadcastCompleteness ==
    \A b \in Broadcasts :
        LET members == list_pool(sends[b].destination.pool)
        IN /\ Cardinality(Copies(b)) = Len(members)
           /\ sends[b].by \in SeqToSet(members)
           /\ \A k \in DOMAIN members :
                 Cardinality({mid \in Copies(b) : sent[mid].dest = members[k]}) = 1
           /\ \A mid \in Copies(b) :
                 /\ sent[mid].source = sends[b].by
                 /\ sent[mid].message = [id |-> b, size |-> sends[b].size]
                 /\ Cardinality(DeliveriesOf(mid)) <= 1
                 /\ \A i \in DeliveriesOf(mid) :
                       /\ log[i].process = sent[mid].dest
                       /\ log[i].from = sends[b].by
                       /\ log[i].message = sent[mid].message
                 /\ DeliveriesOf(mid) = {} =>
                       /\ PendingTimes(mid) # {}
                       /\ \A t \in PendingTimes(mid) : t >= CLOCK
                       /\ pc = "done" => \A t \in PendingTimes(mid) : t >= time_budget

\* C7 case: the run returned and a broadcast made under bounded bandwidth
\* has reached every member of the pool.
C7_Witness ==
    /\ pc = "done"
    /\ Bounded
    /\ \E b \in Broadcasts :
          /\ sends[b].size > 0
          /\ \A mid \in Copies(b) : DeliveriesOf(mid) # {}

\* C8: every routed message is at any time in exactly one place: pending in
\* the latency queue, pending in the bandwidth buffers, or delivered once;
\* and it is delivered to its destination's on_message only.
C8_ExactlyOnceConsumption ==
    \A mid \in DOMAIN sent :
        /\ Cardinality(InQueue(global_queue, mid))
           + Cardinality(InQueue(merged_fifo_buffers, mid))
           + Cardinality(DeliveriesOf(mid)) = 1
        /\ \A i \in DeliveriesOf(mid) :
              /\ log[i].process = sent[mid].dest
              /\ log[i].from = sent[mid].source
              /\ log[i].message = sent[mid].message

\* C8 case: under bounded bandwidth one message went through both queues and
\* was delivered while another waits in the buffers and a third in the
\* latency queue.
C8_Witness ==
    /\ Bounded
    /\ \E m \in Moved : DeliveriesOf(m) # {}
    /\ merged_fifo_buffers # <<>>
    /\ global_queue # <<>>

\* C9: the ids returned by schedule_timer_after over a run are pairwise
\* distinct, whichever participant asked and whenever.
C9_UniqueTimerIds ==
    \A i, j \in DOMAIN timers : i # j => timers[i].returned # timers[j].returned

\* C9 case: two participants scheduled timers at different times.
C9_Witness ==
    \E i, j \in DOMAIN timers :
        /\ timers[i].by # timers[j].by
        /\ timers[i].at < timers[j].at

FiringsOf(k) == {i \in Firings : log[i].timer_id = timers[k].returned}

\* The run has stopped: it returned, or it was aborted.
Stopped == pc \in {"done", "deadlock", "panic"}

\* C10: a timer fires at most once, into the on_timer of the participant that
\* scheduled it, with the id schedule_timer_after returned, at the time it was
\* scheduled at plus its delay; and a timer due before the budget has fired
\* when the run has stopped.
C10_TimerFiring ==
    \A k \in DOMAIN timers :
        /\ Cardinality(FiringsOf(k)) <= 1
        /\ \A i \in FiringsOf(k) :
              /\ log[i].process = timers[k].by
              /\ log[i].time = timers[k].at + timers[k].after
        /\ (Stopped /\ timers[k].at + timers[k].after < time_budget) => FiringsOf(k) # {}

\* The time a routed message carries when it is handed over: the re-stamped
\* time if it went through the buffers, else the latency-assigned time.
FinalArrivalTime(mid) ==
    IF sent[mid].moved > 0
    THEN sent[mid].buffer_time
    ELSE sent[mid].t_submit + 1 + sent[mid].latency

\* C11: every on_message runs with now() equal to the delivered message's
\* final arrival time and every on_timer with now() equal to the timer's fire
\* time; the clock is already there when the callback runs, so a timer the
\* callback schedules is recorded at that time.
C11_ClockAtDispatch ==
    /\ \A i \in Deliveries :
          /\ log[i].time = log[i].due
          /\ log[i].due = FinalArrivalTime(log[i].mid)
    /\ \A i \in Firings : log[i].time = log[i].due
    /\ \A k \in DOMAIN timers :
          \E i \in DOMAIN log :
              log[i].process = timers[k].by /\ log[i].time = timers[k].at

\* C11 case: a message re-stamped in the buffers has been delivered and a
\* timer scheduled from a callback after the start phase has fired.
C11_Witness ==
    /\ \E i \in Deliveries :
          /\ sent[log[i].mid].moved > 0
          /\ sent[log[i].mid].buffer_time > sent[log[i].mid].t_submit + 1
    /\ \E k \in DOMAIN timers :
          /\ timers[k].at > 0
          /\ FiringsOf(k) # {}

\* C12: a scheduler step runs only while now() < T, so at most one callback
\* has seen a time of T or more; and once a step has brought the clock to T or
\* beyond, the run returns normally: it is about to leave the loop or has
\* left it, with the clock at T or beyond.
C12_StopCondition ==
    /\ Cardinality({i \in DOMAIN log : log[i].time >= time_budget}) <= 1
    /\ pc = "done" => CLOCK >= time_budget
    /\ CLOCK >= time_budget => pc \in {"running", "done"}

NoPending == global_queue = <<>> /\ merged_fifo_buffers = <<>> /\ working_timers = {}

\* C13: the run is aborted as deadlocked only at the start of a step with
\* now() < T and nothing pending in the latency queue, the buffers or the timer
\* manager; in such a state the abort is the one step the scheduler can take;
\* and when no start callback emitted anything the run is in that state
\* right after the start phase.
C13_DeadlockDetection ==
    /\ pc = "deadlock" => (NoPending /\ CLOCK < time_budget)
    /\ (Stepping /\ NoPending) =>
          (ENABLED Deadlock /\ ~ENABLED (NetworkMove \/ NetworkDeliver \/ TimerFire \/ Finish))
    /\ (Stepping /\ ~NoPending) => ~ENABLED Deadlock
    /\ (pc = "running" /\ sends = <<>> /\ timers = <<>>) => (Stepping /\ NoPending)

\* C13 case: a run that delivered a message and fired a timer ran out of
\* events before its budget and was aborted.
C13_Witness ==
    /\ pc = "deadlock"
    /\ CLOCK > 0
    /\ Deliveries # {}
    /\ Firings # {}

\* The network's earliest event and the timer manager's earliest timer are
\* due at the same time.
ActorsTie ==
    /\ bandwidth_queue_peek_closest(BQ) # <<>>
    /\ bandwidth_queue_peek_closest(BQ) = timer_manager_peek_closest(working_timers)

\* C14: when the network's earliest event time equals the timer manager's
\* earliest fire time the next step is the network's, never the timer
\* manager's; and no timer has fired at a time at which a message was
\* delivered afterwards.
C14_ActorTieBreak ==
    /\ (Stepping /\ ActorsTie) =>
          (ENABLED (NetworkMove \/ NetworkDeliver) /\ ~ENABLED TimerFire)
    /\ \A i \in Firings : \A j \in Deliveries :
          log[i].time = log[j].time => j < i

\* C14 case: a message was delivered and then a timer fired at the same time,
\* the timer having been scheduled before the message was submitted.
C14_Witness ==
    \E j \in Deliveries : \E k \in DOMAIN timers : \E i \in FiringsOf(k) :
        /\ log[i].time = log[j].time
        /\ j < i
        /\ timers[k].at <= sent[log[j].mid].t_submit

\* The arrival time a routed message has in the latency queue.
LatencyTime(mid) == sent[mid].t_submit + 1 + sent[mid].latency

\* C15: messages with the same arrival time leave the latency queue in the
\* order they were inserted (the order of their mids), and messages with the
\* same time in the buffers leave the buffers in the order they entered them.
C15_FifoAmongEqualTimes ==
    /\ ~Bounded =>
          \A i, j \in Deliveries :
              (i < j /\ log[i].time = log[j].time) => log[i].mid < log[j].mid
    /\ Bounded =>
          \A m1 \in DOMAIN sent : \A m2 \in Moved :
              (m1 < m2 /\ LatencyTime(m1) = LatencyTime(m2))
                  => (m1 \in Moved /\ sent[m1].moved < sent[m2].moved)
    /\ Bounded =>
          \A i, j \in Deliveries :
              (i < j /\ log[i].time = log[j].time)
                  => sent[log[i].mid].moved < sent[log[j].mid].moved

\* C16: timers with the same fire time fire in the order in which they were
\* scheduled, whoever scheduled them.
C16_TimerTieBreak ==
    \A k1, k2 \in DOMAIN timers :
        (k1 < k2 /\ timers[k1].at + timers[k1].after = timers[k2].at + timers[k2].after)
            => \A j \in FiringsOf(k2) : \E i \in FiringsOf(k1) : i < j

\* C17: under Unbounded bandwidth every delivered message is delivered at
\* exactly its submission time plus one plus its sampled latency, a latency
\* within the link's range, and nothing is accounted: no message enters the
\* buffers and no byte count changes.
C17_UnboundedDeliveryTime ==
    ~Bounded =>
        /\ \A i \in Deliveries :
              LET m == sent[log[i].mid]
              IN /\ log[i].time = m.t_submit + 1 + m.latency
                 /\ m.latency \in Latencies
                 /\ log[i].time >= m.t_submit + 1
                 /\ log[i].time <= m.t_submit + 1 + MaxLatency
        /\ Moved = {}
        /\ merged_fifo_buffers = <<>>
        /\ \A d \in DOMAIN total_pased : total_pased[d] = 0

\* C17 case: under Unbounded bandwidth a message with a positive virtual size
\* and a positive latency, submitted after the start phase, was delivered.
C17_Witness ==
    /\ ~Bounded
    /\ \E i \in Deliveries :
          LET m == sent[log[i].mid]
          IN m.message.size > 0 /\ m.latency > 0 /\ m.t_submit > 0

DeliveriesTo(p) == {i \in Deliveries : log[i].process = p}

SendsBy(p) == {b \in DOMAIN sends : sends[b].by = p}

\* C18: in the ping-pong run the k-th delivery happens at time k, to
\* participant 2 when k is odd and to participant 1 when k is even, one tick
\* after it was sent, and every delivery is answered by one reply; when the
\* run returns there has been one delivery at every time 1..T, so that for an
\* even T each participant's on_message ran T/2 times and sent T/2 replies.
C18_PingPong ==
    /\ \A i \in Deliveries :
          LET k == i - NumProcs
          IN /\ log[i].time = k
             /\ log[i].process = (IF k % 2 = 1 THEN 2 ELSE 1)
             /\ log[i].from = (IF k % 2 = 1 THEN 1 ELSE 2)
             /\ log[i].time = sent[log[i].mid].t_submit + 1
    /\ Firings = {}
    /\ pc # "built" =>
          /\ Cardinality(SendsBy(1)) = 1 + Cardinality(DeliveriesTo(1))
          /\ Cardinality(SendsBy(2)) = Cardinality(DeliveriesTo(2))
    /\ pc = "done" =>
          /\ {log[i].time : i \in Deliveries} = 1..time_budget
          /\ Cardinality(Deliveries) = time_budget
          /\ Cardinality(DeliveriesTo(2)) = (time_budget + 1) \div 2
          /\ Cardinality(DeliveriesTo(1)) = time_budget \div 2
    /\ pc \in {"built", "running", "done"}

\* C18 case: the ping-pong run with the even budget TimeBudget has returned.
C18_Witness ==
    /\ pc = "done"
    /\ time_budget = TimeBudget
    /\ Cardinality(DeliveriesTo(1)) = TimeBudget \div 2
    /\ Cardinality(DeliveriesTo(2)) = TimeBudget \div 2

Ceiling(a, b) == (a + b - 1) \div b

\* C19: under Bounded(B) a message that leaves the latency queue at time now
\* with new_total = bytes passed to its destination + its size > now * B
\* enters the buffers stamped with the ceiling of new_total / B, which is at
\* least now; otherwise it keeps the arrival time of the latency queue.
C19_RestampCeiling ==
    \A mid \in Moved :
        LET new_total == sent[mid].passed_before + sent[mid].message.size
        IN IF new_total > sent[mid].moved_at * bandwidth
           THEN /\ sent[mid].buffer_time = Ceiling(new_total, bandwidth)
                /\ sent[mid].buffer_time >= sent[mid].moved_at
           ELSE sent[mid].buffer_time = LatencyTime(mid)

\* The routed messages of payload b, in the order of their submission.
TargetsOfSend(b) == targets_of(sends[b].destination)

\* Routed messages created by the payloads emitted before payload b.
RoutedBefore(b) ==
    LET RECURSIVE count(_)
        count(k) == IF k = 0 THEN 0 ELSE Len(TargetsOfSend(k)) + count(k - 1)
    IN count(b - 1)

\* C20: between two steps of the scheduler both effect buffers are empty;
\* every message a callback emitted has been submitted to the network, one
\* routed message per target, in the order of emission; every timer a callback
\* scheduled has been submitted to the timer manager; and the queues hold
\* nothing but what was submitted that way.
C20_DrainContract ==
    /\ scheduled_messages = <<>>
    /\ scheduled_timers = <<>>
    /\ Len(sent) = RoutedBefore(Len(sends) + 1)
    /\ \A b \in DOMAIN sends :
          \A k \in DOMAIN TargetsOfSend(b) :
              LET mid == RoutedBefore(b) + k
              IN /\ sent[mid].message = [id |-> b, size |-> sends[b].size]
                 /\ sent[mid].source = sends[b].by
                 /\ sent[mid].dest = TargetsOfSend(b)[k]
                 /\ Cardinality(InQueue(global_queue, mid))
                    + Cardinality(InQueue(merged_fifo_buffers, mid))
                    + Cardinality(DeliveriesOf(mid)) = 1
    /\ \A k \in DOMAIN timers :
          LET entry == [time |-> timers[k].at + timers[k].after,
                        process |-> timers[k].by, timer_id |-> timers[k].returned]
          IN (entry \in working_timers) # (FiringsOf(k) # {})
    /\ \A i \in DOMAIN global_queue : global_queue[i].mid \in DOMAIN sent
    /\ \A i \in DOMAIN merged_fifo_buffers : merged_fifo_buffers[i].mid \in DOMAIN sent
    /\ \A e \in working_timers :
          \E k \in DOMAIN timers :
              /\ e.timer_id = timers[k].returned
              /\ e.process = timers[k].by
              /\ e.time = timers[k].at + timers[k].after

\* C20 case: start and later callbacks have emitted messages and timers, and
\* some of them are still pending in the queues.
C20_Witness ==
    /\ Len(log) > NumProcs
    /\ Len(sends) >= 2
    /\ timers # <<>>
    /\ global_queue # <<>>
    /\ working_timers # {}
    /\ \E b \in Broadcasts : b > 1

\* C21: a step that runs a callback of participant p leaves p as the current
\* participant (what rank() returns), and every message and timer emitted in
\* that step is recorded, routed and queued with p as its source; the messages
\* and timers emitted by the start callbacks carry the id of the participant
\* whose start emitted them.
C21_CurrentParticipant ==
    [][LET new_sends == (Len(sends) + 1)..Len(sends')
           new_timers == (Len(timers) + 1)..Len(timers')
       IN /\ \A b \in new_sends :
                /\ sends'[b].by \in ProcessIds
                /\ \A mid \in DOMAIN sent' :
                      sent'[mid].message.id = b => sent'[mid].source = sends'[b].by
          /\ \A k \in new_timers :
                /\ timers'[k].by \in ProcessIds
                /\ \E e \in working_timers' :
                      /\ e.timer_id = timers'[k].returned
                      /\ e.process = timers'[k].by
          /\ Len(log') > Len(log) =>
                process_on_execution' = log'[Len(log')].process
          /\ Len(log') = Len(log) + 1 =>
                /\ \A b \in new_sends : sends'[b].by = log'[Len(log')].process
                /\ \A k \in new_timers : timers'[k].by = log'[Len(log')].process
          /\ pc = "built" =>
                /\ \A b1, b2 \in new_sends : b1 < b2 => sends'[b1].by <= sends'[b2].by
                /\ \A k1, k2 \in new_timers : k1 < k2 => timers'[k1].by <= timers'[k2].by]_vars

\* C21 case: a callback of a participant other than the one that ran before
\* it has emitted a message and a timer.
C21_Witness ==
    /\ Len(log) > NumProcs
    /\ log[Len(log)].process # log[Len(log) - 1].process
    /\ \E mid \in DOMAIN sent :
          /\ sent[mid].t_submit = log[Len(log)].time
          /\ sent[mid].t_submit > 0
          /\ sent[mid].source = log[Len(log)].process
    /\ \E k \in DOMAIN timers :
          /\ timers[k].at = log[Len(log)].time
          /\ timers[k].at > 0
          /\ timers[k].by = log[Len(log)].process

\* C22: the first step of a run invokes the start callback of every
\* participant once, in ascending id order, with now() = 0, and what the start
\* callbacks emit is submitted at time 0 in that order; no callback precedes
\* them and no later step invokes a start callback.
C22_StartUp ==
    [][/\ pc = "built" =>
             /\ log = <<>>
             /\ CLOCK = 0 /\ CLOCK' = 0
             /\ DOMAIN log' = ProcessIds
             /\ \A id \in ProcessIds :
                   /\ log'[id].callback = "start"
                   /\ log'[id].process = id
                   /\ log'[id].time = 0
             /\ \A b1, b2 \in DOMAIN sends' : b1 < b2 => sends'[b1].by <= sends'[b2].by
             /\ \A k1, k2 \in DOMAIN timers' : k1 < k2 => timers'[k1].by <= timers'[k2].by
             /\ \A mid \in DOMAIN sent' : sent'[mid].t_submit = 0
             /\ \A k \in DOMAIN timers' : timers'[k].at = 0
       /\ pc # "built" =>
             /\ Len(log) >= NumProcs
             /\ \A i \in DOMAIN log : log'[i] = log[i]
             /\ \A i \in DOMAIN log' : (log'[i].callback = "start") = (i <= NumProcs)]_vars

\* C22 case: the start callbacks of two participants emitted effects, and a
\* later callback has run.
C22_Witness ==
    /\ Len(log) > NumProcs
    /\ \E b1, b2 \in DOMAIN sends :
          /\ b1 < b2
          /\ sends[b1].by < sends[b2].by
          /\ \A mid \in Copies(b1) \cup Copies(b2) : sent[mid].t_submit = 0
    /\ \A id \in ProcessIds : log[id].callback = "start" /\ log[id].process = id

\* C23: a message of virtual size 0 is never held back by bandwidth shaping:
\* when it goes through the buffers it keeps the arrival time the latency
\* queue gave it, and it is delivered at t_submit + 1 + sampled latency.
C23_ZeroSizeUndelayed ==
    /\ \A mid \in Moved :
          sent[mid].message.size = 0 => sent[mid].buffer_time = LatencyTime(mid)
    /\ \A i \in Deliveries :
          log[i].message.size = 0 => log[i].time = LatencyTime(log[i].mid)

\* C24: under Bounded(B) a message of virtual size S > B that left the latency
\* queue at time t is delivered no earlier than t + ceiling(S / B).
C24_TransmissionTime ==
    Bounded =>
        \A i \in Deliveries :
            LET mid == log[i].mid
            IN sent[mid].message.size > bandwidth =>
                  log[i].time >= sent[mid].moved_at
                                 + Ceiling(sent[mid].message.size, bandwidth)

\* Messages the Receiver gets in the bandwidth example under Unbounded
\* bandwidth with budget T: the message sent at time t arrives at
\* t + 1 + ThrottleLatency, one per jiffy from 2 + ThrottleLatency to T.
UnboundedCount(T) == T - ThrottleLatency - 1

messages_received == Cardinality(DeliveriesTo(2))

\* C25: when a run of the bandwidth example returns, the Receiver has got
\* UnboundedCount(T) messages under Unbounded bandwidth, no more than that
\* under Bounded(B), and strictly fewer under Bounded(B) when the offered load
\* of MaxSize bytes per jiffy exceeds B.
C25_Throttling ==
    pc = "done" =>
        /\ ~Bounded => messages_received = UnboundedCount(time_budget)
        /\ Bounded => messages_received <= UnboundedCount(time_budget)
        /\ (Bounded /\ MaxSize > bandwidth) =>
              messages_received < UnboundedCount(time_budget)

\* C25 case: a run of the example under Bounded(1) has returned with messages
\* delivered and messages still held back.
C25_Witness ==
    /\ pc = "done"
    /\ bandwidth = 1
    /\ messages_received > 0
    /\ merged_fifo_buffers # <<>>

\* The latency queue after the starts of a quiet workload submitted the first
\* n routed messages.
RECURSIVE SubmittedQueue(_)
SubmittedQueue(n) ==
    IF n = 0
    THEN <<>>
    ELSE latency_queue_push(
             SubmittedQueue(n - 1),
             [arrival_time |-> base_arrival_time(sent[n].t_submit), source |-> sent[n].source,
              dest |-> sent[n].dest, message |-> sent[n].message, mid |-> n],
             sent[n].latency)

\* The deliveries (time, recipient, sender) of Simulation::run over the
\* BandwidthQueue of src/dscale, from a bandwidth queue bq at time now, when
\* no callback emits anything: while now() < time_budget the closest message
\* is popped and handed over.
RECURSIVE fast_path_run(_, _, _)
fast_path_run(bq, now, delivered) ==
    IF now >= time_budget \/ bandwidth_queue_peek_closest(bq) = <<>>
    THEN delivered
    ELSE LET future == bandwidth_queue_peek_closest(bq)[1]
             popped == bandwidth_queue_pop(bq, future)
         IN fast_path_run(
                popped.bq, future,
                delivered \o [k \in DOMAIN popped.out |->
                                 [time |-> future, process |-> popped.out[k].dest,
                                  from |-> popped.out[k].source]])

FastPathDeliveries ==
    fast_path_run([bandwidth |-> bandwidth, global_queue |-> SubmittedQueue(Len(sent)),
                   merged_fifo_buffers |-> <<>>, total_pased |-> [d \in 0..NumProcs |-> 0]],
                  0, <<>>)

\* The deliveries (time, recipient, sender) of the run so far.
DeliverySequence ==
    [k \in 1..(Len(log) - NumProcs) |->
        [time |-> log[NumProcs + k].time, process |-> log[NumProcs + k].process,
         from |-> log[NumProcs + k].from]]

\* C26: under Unbounded bandwidth a run that moves every message through the
\* buffers ends with the sequence of deliveries (time, recipient, sender) that
\* the fast path produces for the same workload and budget.
C26_UnboundedVariantsAgree ==
    Stopped => DeliverySequence = FastPathDeliveries

\* C27: every id the unique-id source has produced, and so every TimerId
\* schedule_timer_after has returned, differs from all earlier ones and is
\* not zero.
C27_NonzeroUniqueIds ==
    /\ \A k \in DOMAIN timers : timers[k].returned # 0
    /\ \A j, k \in DOMAIN timers : j # k => timers[j].returned # timers[k].returned

\* Positions (pool, index) of the named pools that hold participant id.
PlacesOf(listing, id) ==
    {<<name, i>> \in (DOMAIN listing \ {GLOBAL_POOL}) \X (1..MaxParticipants) :
        i <= Len(listing[name]) /\ listing[name][i] = id}

\* C28: after any sequence of add_pool calls the participants are 1..n, every
\* one of them is in exactly one place of the named pools, every pool lists
\* its members in the order they were added (ascending ids), and GLOBAL_POOL
\* is <<1, ..., n>>; a later add_pool appends fresh, larger ids and leaves
\* the members listed so far where they are, and build changes nothing.
C28_PoolListing ==
    [][LET n == proc_id' - 1
       IN /\ proc_id' >= proc_id
          /\ \A name \in DOMAIN pools :
                /\ name \in DOMAIN pools'
                /\ Len(pools'[name]) >= Len(pools[name])
                /\ \A i \in DOMAIN pools[name] : pools'[name][i] = pools[name][i]
          /\ \A name \in DOMAIN pools' :
                /\ pools'[name] # <<>>
                /\ \A i, j \in DOMAIN pools'[name] :
                      i < j => pools'[name][i] < pools'[name][j]
                /\ \A i \in DOMAIN pools'[name] :
                      /\ pools'[name][i] \in 1..n
                      /\ (name \notin DOMAIN pools \/ i > Len(pools[name])) =>
                            pools'[name][i] >= proc_id
          /\ n > 0 => /\ GLOBAL_POOL \in DOMAIN pools'
                      /\ pools'[GLOBAL_POOL] = [i \in 1..n |-> i]
          /\ \A id \in 1..n : Cardinality(PlacesOf(pools', id)) = 1
          /\ pc' = "built" => (pools' = pools /\ proc_id' = proc_id)]_vars

\* C28 case: a simulation was built from pools filled by interleaved add_pool
\* calls.
C28_Witness ==
    /\ pc = "built"
    /\ \E a, b \in DOMAIN pools \ {GLOBAL_POOL} :
          /\ a # b
          /\ Len(pools[a]) >= 2
          /\ pools[a][1] < pools[b][1]
          /\ pools[b][1] < pools[a][2]
    /\ Len(pools[GLOBAL_POOL]) >= 3

\* The lookups that the submission of payload b needs and that miss: the
\* pool it addresses was never declared, or a target has no latency
\* distribution from the sender (a participant nobody has never has one).
MissedLookup(b) ==
    LET topology == latency_topology(pools, LookupDescriptions)
        destination == sends[b].destination
    IN IF destination.kind = "To"
       THEN <<sends[b].by, destination.to>> \notin topology
       ELSE \/ destination.pool \notin DOMAIN pools
            \/ \E member \in SeqToSet(pools[destination.pool]) :
                  <<sends[b].by, member>> \notin topology

\* C29: a run in which a callback emitted a message whose lookups miss is
\* aborted by the drain that submits it: it takes no further step, no copy of
\* such a message is ever handed to an on_message, and no routed message
\* exists for a participant nobody has; a run whose lookups all hit is not
\* aborted and every message has all its copies.
C29_FatalLookups ==
    /\ (\E b \in DOMAIN sends : MissedLookup(b)) <=> pc = "panic"
    /\ pc = "panic" => (Deliveries = {} /\ ~ENABLED NextLookups)
    /\ \A i \in Deliveries : ~MissedLookup(log[i].message.id)
    /\ \A mid \in DOMAIN sent :
          /\ sent[mid].dest \in ProcessIds
          /\ <<sent[mid].source, sent[mid].dest>>
                \in latency_topology(pools, LookupDescriptions)
    /\ pc # "panic" =>
          \A b \in DOMAIN sends :
              LET targets == IF sends[b].destination.kind = "To"
                             THEN <<sends[b].destination.to>>
                             ELSE pools[sends[b].destination.pool]
              IN Cardinality(Copies(b)) = Len(targets)

\* C29 cases: a run was aborted on a message for a participant nobody has, a
\* run on a pair without a distribution, a run on an undeclared pool; and a
\* run whose lookups all hit delivered a pool broadcast.
C29_WitnessNobody ==
    /\ pc = "panic"
    /\ \E b \in DOMAIN sends :
          sends[b].destination.kind = "To" /\ sends[b].destination.to \notin ProcessIds

C29_WitnessNoDistribution ==
    /\ pc = "panic"
    /\ \A b \in DOMAIN sends :
          /\ sends[b].destination.kind = "To"
          /\ sends[b].destination.to \in ProcessIds
    /\ sends # <<>>

C29_WitnessNoPool ==
    /\ pc = "panic"
    /\ \A b \in DOMAIN sends : sends[b].destination.pool = "Nowhere"
    /\ sends # <<>>

C29_Witness ==
    /\ pc = "panic"
    /\ sent # <<>>
    /\ \E b \in DOMAIN sends :
          /\ sends[b].destination.pool = GLOBAL_POOL
          /\ Copies(b) # {}
          /\ Cardinality(Copies(b)) < NumProcs

\* C30: while no simulation context is installed (before the simulation is
\* built, after it was dropped) both buffers are empty, and a handler API
\* called then aborts the run and leaves the buffers, the histories of sends
\* and timers, the timer ids and the queues as they were.
C30_OutOfContext ==
    [][ACCESS_HANDLE = <<>> =>
          /\ scheduled_messages = <<>>
          /\ scheduled_timers = <<>>
          /\ pc' # "built" =>
                /\ pc' = "panic"
                /\ UNCHANGED <<process_on_execution, scheduled_messages, scheduled_timers,
                               TSO, sends, timers, sent, global_queue, merged_fifo_buffers,
                               working_timers, CLOCK, log>>]_vars

\* C30 case: an API call aborted the run after a simulation that delivered
\* messages had been dropped, with an effect buffered after run() discarded.
C30_Witness ==
    /\ pc = "panic"
    /\ proc_id = NumProcs + 1
    /\ Deliveries # {}
    /\ Len(sends) > Cardinality({sent[mid].message.id : mid \in DOMAIN sent})

\* C30 case: an API call aborted the run before any simulation was built.
C30_WitnessBeforeSetup ==
    /\ pc = "panic"
    /\ proc_id = 1
    /\ pools = NoPools

\* What a callback invocation shows of the run: which callback, when, on
\* whom, from whom, how large the message, which timer id.
EventOf(e) ==
    [callback |-> e.callback, time |-> e.time, due |-> e.due, process |-> e.process,
     from |-> e.from, size |-> e.message.size, timer_id |-> e.timer_id]

\* The log of the run that begins at position first.
RunFrom(first) ==
    LET later == {i \in RunStarts : i > first}
        last == IF later = {} THEN Len(log)
                ELSE (CHOOSE i \in later : \A j \in later : i <= j) - 1
    IN [k \in 1..(last - first + 1) |-> EventOf(log[first + k - 1])]

IsPrefix(s, t) == Len(s) <= Len(t) /\ \A k \in DOMAIN s : s[k] = t[k]

\* C31: once the simulation is dropped the clock and the id source are back
\* at 0 and no context is installed; a simulation with the same configuration
\* built and run afterwards repeats the callbacks of the first run, event by
\* event with the same times and timer ids, and when its run() returns it has
\* repeated all of them.
C31_TeardownResets ==
    /\ pc = "dropped" => (CLOCK = 0 /\ TSO = 0 /\ ACCESS_HANDLE = <<>>)
    /\ \A first \in RunStarts :
          /\ IsPrefix(RunFrom(first), RunFrom(1))
          /\ pc = "done" => RunFrom(first) = RunFrom(1)

\* C31 case: the second run returned after firing timers and delivering
\* messages.
C31_Witness ==
    /\ pc = "done"
    /\ Cardinality(RunStarts) = MaxRuns
    /\ \E i \in Firings : i > Len(RunFrom(1)) /\ log[i].timer_id > 0
    /\ \E i \in Deliveries : i > Len(RunFrom(1))

\* The values handed to combine by its first k calls, in the order handed.
Offered(k) == [i \in 1..k |-> combine_calls[i].value]

\* C32: with threshold n, each of the first n-1 calls of combine returns
\* None, the n-th returns the n values handed so far in the order handed, and
\* every later call returns None; the Combiner holds the first min(k, n)
\* values after k calls, so a later call stores nothing and changes nothing.
C32_Combiner ==
    LET n == combiner.threshold
        k == Len(combine_calls)
    IN /\ \A i \in 1..k :
             combine_calls[i].returned = IF i = n THEN <<Offered(n)>> ELSE <<>>
       /\ combiner.values = Offered(IF k <= n THEN k ELSE n)
       /\ combiner.idx = (IF k <= n THEN k ELSE n)

\* C32 case: a Combiner of threshold 2 or more has returned its values and
\* was handed a different value afterwards.
C32_Witness ==
    /\ combiner.threshold >= 2
    /\ Len(combine_calls) > combiner.threshold
    /\ combine_calls[Len(combine_calls)].value # combine_calls[1].value
    /\ combine_calls[combiner.threshold].returned # <<>>

\* The next step is the network's and the latency queue's head wins it.
HeadWins ==
    /\ Stepping
    /\ closest # <<>>
    /\ closest[1].sha = "network"
    /\ global_queue # <<>>
    /\ latency_head_first(BQ)

\* C34: under Bounded bandwidth a network step that the latency queue's head
\* wins takes that message out of the latency queue and puts it, and nothing
\* else, into the buffers; no callback runs, the bytes passed, the timer
\* heap, the effect buffers and the histories of effects stay as they were,
\* and the step is not reported as a deadlock.
C34_SilentRestamp ==
    [][(Bounded /\ HeadWins) =>
          LET head == HeapPeek(global_queue)
          IN /\ global_queue' = HeapPop(global_queue)
             /\ Len(merged_fifo_buffers') = Len(merged_fifo_buffers) + 1
             /\ SeqToSet(merged_fifo_buffers) \subseteq SeqToSet(merged_fifo_buffers')
             /\ \E m \in SeqToSet(merged_fifo_buffers') :
                   [m EXCEPT !.arrival_time = head.arrival_time] = head
             /\ log' = log
             /\ total_pased' = total_pased
             /\ working_timers' = working_timers
             /\ scheduled_messages' = scheduled_messages
             /\ scheduled_timers' = scheduled_timers
             /\ process_on_execution' = process_on_execution
             /\ sends' = sends
             /\ timers' = timers
             /\ TSO' = TSO
             /\ Len(sent') = Len(sent)
             /\ pc' # "deadlock"]_vars

\* C34 case: the step just taken moved a message into buffers that already
\* held one, while a timer is pending.
C34_Witness ==
    /\ Bounded
    /\ Len(merged_fifo_buffers) >= 2
    /\ working_timers # {}
    /\ \E m \in SeqToSet(merged_fifo_buffers) :
          /\ sent[m.mid].moved = Cardinality(Moved)
          /\ sent[m.mid].moved_at = CLOCK
          /\ \A i \in DOMAIN log : log[i].time < CLOCK

\* C35: under Bounded bandwidth the bytes passed to a destination equal the
\* sum of the virtual sizes of the messages delivered to it so far; from one
\* step to the next they never decrease, and they change only in a step that
\* takes a message for that destination out of the buffers and hands it to
\* its on_message, growing by that message's virtual size.
C35_ByteAccounting ==
    [][Bounded =>
          /\ \A dest \in ProcessIds :
                /\ total_pased[dest] = DeliveredBytes(dest, Len(log))
                /\ total_pased'[dest] >= total_pased[dest]
                /\ total_pased'[dest] # total_pased[dest] =>
                      /\ merged_fifo_buffers # <<>>
                      /\ merged_fifo_buffers' = HeapPop(merged_fifo_buffers)
                      /\ Len(log') = Len(log) + 1
                      /\ LET message == HeapPeek(merged_fifo_buffers)
                             entry == log'[Len(log')]
                         IN /\ message.dest = dest
                            /\ entry.callback = "on_message"
                            /\ entry.process = dest
                            /\ entry.mid = message.mid
                            /\ total_pased'[dest] = total_pased[dest] + message.message.size
          /\ total_pased'[0] = 0]_vars

\* C35 case: a destination has been handed two messages of nonzero size.
C35_Witness ==
    /\ Bounded
    /\ \E dest \in ProcessIds :
          /\ total_pased[dest] = 2 * MaxSize
          /\ Cardinality({i \in DeliveriesTo(dest) : log[i].message.size = MaxSize}) = 2

\* C36: when run() has returned, every timer still in the timer heap and
\* every message still in the latency queue or the buffers has a time of at
\* least the budget; every timer scheduled for a time before the budget has
\* fired and every routed message has been delivered or is still pending;
\* each callback ran with the clock at the time its event carried, and the
\* callbacks ran in nondecreasing order of that time.
C36_NoEventLeftBehind ==
    pc = "done" =>
        /\ \A timer \in working_timers : timer.time >= time_budget
        /\ \A i \in DOMAIN global_queue : global_queue[i].arrival_time >= time_budget
        /\ \A i \in DOMAIN merged_fifo_buffers :
              merged_fifo_buffers[i].arrival_time >= time_budget
        /\ \A k \in DOMAIN timers :
              timers[k].at + timers[k].after < time_budget => FiringsOf(k) # {}
        /\ \A mid \in DOMAIN sent : DeliveriesOf(mid) # {} \/ PendingTimes(mid) # {}
        /\ \A i \in Deliveries \cup Firings : log[i].time = log[i].due
        /\ \A i, j \in DOMAIN log : i < j => log[i].time <= log[j].time

\* C36 case: run() returned after a timer fired before the budget, with a
\* message for a later time still pending.
C36_Witness ==
    /\ pc = "done"
    /\ \E i \in Firings : log[i].time < time_budget
    /\ global_queue # <<>> \/ merged_fifo_buffers # <<>>

\* C37: with every timer delay at least 1 and finitely many effects in each
\* callback, run() ends for every budget, under Unbounded and Bounded
\* bandwidth: eventually it has returned with now() >= T, or it has reported
\* a deadlock.
C37_Termination == <>(pc = "deadlock" \/ (pc = "done" /\ CLOCK >= time_budget))

\* The same for the budgets of at least K_PROGRESS_TIMES.
C37_TerminationLargeBudget ==
    time_budget >= K_PROGRESS_TIMES =>
        <>(pc = "deadlock" \/ (pc = "done" /\ CLOCK >= time_budget))

\* C38: under Bounded(B), for every nonzero B other than the Unbounded
\* sentinel, the product now() * B of the budget test does not overflow the
\* machine word: no step is aborted by it, and every message that has left
\* the latency queue was given a buffer time of at least the time it left at.
C38_NoOverflow ==
    /\ pc # "panic"
    /\ \A mid \in Moved : sent[mid].buffer_time >= sent[mid].moved_at

\* C39: for every time budget T >= 1, also below K_PROGRESS_TIMES, the
\* progress update at the end of a step divides by a nonzero granularity: no
\* step is aborted by it, and a run that stopped with events still pending
\* stopped at now() >= T.
C39_ProgressDefined ==
    /\ pc # "panic"
    /\ (/\ Stopped
        /\ global_queue # <<>> \/ merged_fifo_buffers # <<>> \/ working_timers # {})
       => CLOCK >= time_budget

\* C33: the history of completed Get and Put operations the clients recorded
\* during a run of the ABD store is linearizable per key, with initial value
\* 0: the check the example asserts after the run succeeds.
C33_Linearizable == pc = "done" => CheckLinearizable(linearizable_history)

\* A replica took up operation o: it holds a pending read quorum for it.
Coordinated(o) ==
    \E id \in DOMAIN replicas, key \in SeqToSet(keypool) :
       \E r \in DOMAIN replicas[id].registers[key].pending_read_quorums :
          replicas[id].registers[key].pending_read_quorums[r].op = o

\* No message sent for operation o is still on its way.
Settled(o) == \A i \in DOMAIN global_queue : global_queue[i].message.op # o

Answered(o) == \E i \in DOMAIN answers : answers[i].op = o

\* C40: a replica answers a Put or a Get only after quorum_size replicas
\* acknowledged that operation's own write request, also when it coordinates
\* several operations on one key whose write phases use the same timestamp,
\* and every coordinated operation is answered once its messages are through.
C40_QuorumAccounting ==
    /\ \A i \in DOMAIN answers :
          answers[i].own_acks >= quorum_size(process_number(pools))
    /\ \A o \in DOMAIN issued : (Coordinated(o) /\ Settled(o)) => Answered(o)

====
